---- MODULE Spec2Model ----
(***************************************************************************)
(* Lending state machine of the library server: direct checkout, checkin,  *)
(* and the borrow-request workflow (create, approve, decline).             *)
(*                                                                         *)
(* Every HTTP handler invocation is a call.  A call first runs the part of *)
(* the handler that precedes prisma.$transaction (validation and the reads *)
(* made outside the transaction), then the transaction itself as one       *)
(* atomic step, which also fixes the answer.  The store is the three       *)
(* tables book, loan and borrowRequest.  The auditLog table, appended to   *)
(* after a commit and read by no handler, is left out.                     *)
(*                                                                         *)
(* The books router adds the catalog side: the listing handler with its    *)
(* cache and the background sweep it starts, the enrichment endpoints, the *)
(* import of a candidate that matches a row, PATCH and DELETE.  The        *)
(* catalog columns of a book are represented by one enrichable column      *)
(* (genre) and the aiMetadata flag; the lending handlers only copy them.   *)
(***************************************************************************)
EXTENDS Integers, Sequences, FiniteSets, TLC

\* ---- bounds ----
MaxItems == 2
MaxTitleLen == 4     \* code units of a title
MaxAuthorLen == 2    \* code units of an author
MaxRuns == 1         \* sweeps running at a time, where their number is bounded
MaxCandidates == 4   \* search results in one list
MaxFound == 1        \* candidates a provider returns to one query
MaxHistory == 3      \* loans in a borrowing history
MaxRows == 2         \* rows a sweep selects, candidates an import persists
MaxPageCount == 2400
NCalls == 4          \* handler invocations in one behaviour
NBooks == 1          \* catalog rows present in the store
NLists == 3          \* listing requests in one behaviour
NTicks == 2          \* times the clock advances in one behaviour

\* ---- domain ----
Books == 1..NBooks
MissingBook == NBooks + 1            \* an id with no catalog row
BookIds == Books \cup {MissingBook}
Members == {"m1"}
Admins == {"a1"}
Users == Members \cup Admins
NoUser == "none"
NoDate == "none"

Role(u) == IF u \in Admins THEN "ADMIN" ELSE "MEMBER"

VARIABLES
    book,        \* book table: id -> [available, requestPending]
    loans,       \* loan table: sequence, loan id = index
    requests,    \* borrowRequest table: sequence, request id = index
    calls,       \* handler invocations in flight (past their reads, before their transaction)
    arrived,     \* number of handler invocations so far
    resp,        \* the response sent by the last step, NoResp if it sent none
    meta,        \* book table, catalog columns: id -> [genre, aiMetadata]
    clock,       \* Date.now()
    booksCache,  \* the listing cache entry of one cache key, NoEntry if absent
    autoCoreEnrichmentInProgress,
    autoCoreEnrichmentLastRunAt,
    completedAt, \* when the last background sweep settled, Never if none has
    sweeps,      \* enrichment runs in flight
    lists,       \* listing requests in flight (past the cache test)
    sent,        \* the body of the last listing response
    lateEstimates,        \* due-date estimates still running after their approval moved on
    recommendationsCache, \* entries of the recommendations cache
    arg,         \* the argument of the library function under study
    out          \* its result, NoResult before it is called

vars == <<book, loans, requests, calls, arrived, resp, meta, clock, booksCache,
          autoCoreEnrichmentInProgress, autoCoreEnrichmentLastRunAt, completedAt,
          sweeps, lists, sent, lateEstimates, recommendationsCache, arg, out>>
store == <<book, loans, requests>>
\* module state of the books router and the requests it has in flight
guard == <<autoCoreEnrichmentInProgress, autoCoreEnrichmentLastRunAt, completedAt>>
\* state of the ai router and of the library functions
others == <<lateEstimates, recommendationsCache, arg, out>>
side == <<meta, clock, booksCache, guard, sweeps, lists, sent, others>>

BOOKS_CACHE_TTL_MS == 20000
RECOMMENDATIONS_CACHE_TTL_MS == 20000
AUTO_CORE_ENRICH_COOLDOWN_MS == 5 * 60 * 1000
\* the process starts long after the epoch
StartTime == AUTO_CORE_ENRICH_COOLDOWN_MS

Missing == "missing"     \* a catalog column that is null
ByAdmin == "admin"       \* a value typed in by an administrator
External == "external"   \* a value taken from a provider candidate or synthesized
NoEntry == [expiresAt |-> 0, payload |-> << >>]
NoSent == [status |-> 0, payload |-> << >>, cached |-> FALSE]
Never == -1
NoIsbn == "none"
NoArg == << >>
NoResult == << >>

InitRouter ==
    /\ meta = [b \in Books |-> [genre |-> Missing, aiMetadata |-> FALSE, isbn |-> NoIsbn]]
    /\ clock = StartTime
    /\ booksCache = NoEntry
    /\ autoCoreEnrichmentInProgress = FALSE
    /\ autoCoreEnrichmentLastRunAt = 0
    /\ completedAt = Never
    /\ sweeps = << >>
    /\ lists = << >>
    /\ sent = NoSent
    /\ lateEstimates = 0
    /\ recommendationsCache = {}

InitSide ==
    /\ InitRouter
    /\ arg = NoArg
    /\ out = NoResult

NoCall == [op |-> "none", viewer |-> NoUser, bookId |-> 0, requestId |-> 0,
           loanId |-> 0, userId |-> NoUser, dueAt |-> NoDate,
           estimated |-> NoDate, timedOut |-> FALSE, sourceLoans |-> 0, borrowed |-> {}]
NoResp == [op |-> "none", viewer |-> NoUser, bookId |-> 0, requestId |-> 0, status |-> 0]

InitStore ==
    /\ book = [b \in Books |-> [available |-> TRUE, requestPending |-> FALSE]]
    /\ loans = << >>
    /\ requests = << >>
    /\ calls = << >>
    /\ arrived = 0
    /\ resp = NoResp

Init ==
    /\ InitStore
    /\ InitSide

\* ---- queries ----
ActiveLoansIn(ls, b) == {l \in 1..Len(ls) : ls[l].bookId = b /\ ls[l].returnedAt = 0}
ActiveLoans(b) == ActiveLoansIn(loans, b)
PendingRequestsIn(rs, b) == {r \in 1..Len(rs) : rs[r].bookId = b /\ rs[r].status = "PENDING"}
PendingRequests(b) == PendingRequestsIn(requests, b)

\* the rows of the book table
Rows == DOMAIN book

Range(s) == {s[i] : i \in DOMAIN s}

RemoveAt(s, i) == [k \in 1..(Len(s) - 1) |-> IF k < i THEN s[k] ELSE s[k + 1]]

\* new Date(): later than every timestamp already stored
RECURSIVE MaxReturned(_)
MaxReturned(n) ==
    IF n = 0 THEN 0
    ELSE IF loans[n].returnedAt > MaxReturned(n - 1) THEN loans[n].returnedAt
    ELSE MaxReturned(n - 1)
Now == MaxReturned(Len(loans)) + 1

\* ---- handler plumbing ----
Arrives == arrived < NCalls /\ arrived' = arrived + 1

Reply(c, code) == resp' = [op |-> c.op, viewer |-> c.viewer, bookId |-> c.bookId,
                           requestId |-> c.requestId, status |-> code]

\* the handler throws (or answers) before its transaction
Reject(c, code) == calls' = calls /\ Reply(c, code) /\ UNCHANGED side
\* the handler reaches prisma.$transaction
Enter(c) == calls' = Append(calls, c) /\ resp' = NoResp /\ UNCHANGED side
\* the transaction of the i-th call in flight commits or rolls back, and the handler answers
Leave(i, c, code) == calls' = RemoveAt(calls, i) /\ Reply(c, code) /\ UNCHANGED arrived
\* ... in a handler that touches nothing but the lending tables
Finish(i, c, code) == Leave(i, c, code) /\ UNCHANGED side

InFlight(i, op) == i \in 1..Len(calls) /\ calls[i].op = op

\* ---- POST /loans/checkout ----
CheckoutStart(v, b, due) ==
    /\ Arrives
    /\ LET c == [NoCall EXCEPT !.op = "checkout", !.viewer = v, !.bookId = b] IN
       IF due # NoDate /\ Role(v) # "ADMIN" THEN Reject(c, 403)
       ELSE IF b \notin Rows THEN Reject(c, 404)
       ELSE Enter([c EXCEPT !.dueAt = IF due # NoDate THEN due ELSE "estimate"])
    /\ UNCHANGED store

\* a faulty claim for comparison: the where-clause without the availability test
CheckoutClaimAnyRow(b) == b \in Books

CheckoutClaimWhere(b) == b \in Rows /\ book[b].available

CheckoutLoanData(c) == [bookId |-> c.bookId, userId |-> c.viewer, dueAt |-> c.dueAt, returnedAt |-> 0]

CheckoutTx(i) ==
    /\ InFlight(i, "checkout")
    /\ LET c == calls[i]
           b == c.bookId IN
       IF CheckoutClaimWhere(b)
       THEN /\ book' = [book EXCEPT ![b].available = FALSE]
            /\ loans' = Append(loans, CheckoutLoanData(c))
            /\ UNCHANGED requests
            /\ Finish(i, c, 201)
       ELSE /\ UNCHANGED store
            /\ Finish(i, c, 409)

\* ---- POST /loans/checkin ----
\* a faulty test for comparison: anyone may check in anyone's loan
CheckinForbiddenNever(v, l) == FALSE

CheckinForbidden(v, l) == Role(v) # "ADMIN" /\ loans[l].userId # v

CheckinStart(v, b) ==
    /\ Arrives
    /\ LET c == [NoCall EXCEPT !.op = "checkin", !.viewer = v, !.bookId = b] IN
       IF ActiveLoans(b) = {} THEN Reject(c, 404)
       ELSE \E l \in ActiveLoans(b) :
              IF CheckinForbidden(v, l) THEN Reject(c, 403)
              ELSE Enter([c EXCEPT !.loanId = l])
    /\ UNCHANGED store

CheckinTx(i) ==
    /\ InFlight(i, "checkin")
    /\ LET c == calls[i] IN
       /\ book' = [book EXCEPT ![c.bookId].available = TRUE]
       /\ loans' = [loans EXCEPT ![c.loanId].returnedAt = Now]
       /\ UNCHANGED requests
       /\ Finish(i, c, 200)

\* ---- POST /borrow-requests ----
RequestStart(v, b) ==
    /\ Arrives
    /\ Role(v) = "MEMBER"
    /\ Enter([NoCall EXCEPT !.op = "request", !.viewer = v, !.bookId = b])
    /\ UNCHANGED store

\* faulty claims for comparison: the where-clause with one of its two tests missing
RequestClaimAvailableOnly(b) == b \in Books /\ book[b].available
RequestClaimNotPendingOnly(b) == b \in Books /\ ~book[b].requestPending

RequestClaimWhere(b) == b \in Books /\ book[b].available /\ ~book[b].requestPending

RequestData(c) == [userId |-> c.viewer, bookId |-> c.bookId, status |-> "PENDING",
                   reviewedById |-> NoUser, memberSeen |-> TRUE]

RequestTx(i) ==
    /\ InFlight(i, "request")
    /\ LET c == calls[i]
           b == c.bookId IN
       IF RequestClaimWhere(b)
       THEN /\ book' = [book EXCEPT ![b].requestPending = TRUE]
            /\ requests' = Append(requests, RequestData(c))
            /\ UNCHANGED loans
            /\ Finish(i, [c EXCEPT !.requestId = Len(requests) + 1], 201)
       ELSE /\ UNCHANGED store
            /\ Finish(i, c, 409)

\* ---- POST /borrow-requests/:requestId/approve ----
ApproveStart(v, r, est) ==
    /\ Arrives
    /\ Role(v) = "ADMIN"
    /\ LET c == [NoCall EXCEPT !.op = "approve", !.viewer = v, !.requestId = r] IN
       IF r > Len(requests) THEN Reject(c, 404)
       ELSE IF requests[r].status # "PENDING" THEN Reject(c, 409)
       ELSE Enter([c EXCEPT !.bookId = requests[r].bookId, !.userId = requests[r].userId,
                            !.dueAt = est])
    /\ UNCHANGED store

ApproveRequestWhere(r) == requests[r].status = "PENDING"

ApproveBookWhere(b) == book[b].available /\ book[b].requestPending

\* faulty data for comparison: the loan is created for the approving administrator
ApproveLoanForViewer(c) == [bookId |-> c.bookId, userId |-> c.viewer, dueAt |-> c.dueAt, returnedAt |-> 0]

ApproveLoanData(c) == [bookId |-> c.bookId, userId |-> c.userId, dueAt |-> c.dueAt, returnedAt |-> 0]

\* a faulty abort for comparison: the request update survives the failed book claim
ApproveAbortKeepsRequest(c) ==
    /\ requests' = [requests EXCEPT ![c.requestId].status =
                       IF ApproveRequestWhere(c.requestId) THEN "APPROVED" ELSE @]
    /\ UNCHANGED <<book, loans>>

\* throw new HttpError(409, ...) inside the callback: the transaction rolls back
ApproveAbort(c) == UNCHANGED store

\* the handler awaits Promise.race of the estimator and the timer
Racing == "racing"

\* the handler up to await Promise.race([estimateLoanDueDate(...), timer])
ApproveRaceStart(v, r) == ApproveStart(v, r, Racing)

\* the estimator settles before the timer: est is its estimate, or the fallback
\* estimate of its .catch
RaceEstimator(i, est) ==
    /\ InFlight(i, "approve")
    /\ calls[i].dueAt = Racing /\ ~calls[i].timedOut
    /\ calls' = [calls EXCEPT ![i].dueAt = est, ![i].estimated = est]
    /\ resp' = NoResp
    /\ UNCHANGED <<store, arrived, side>>

\* a faulty race for comparison: the timer is not among the raced promises
RaceTimerKeepsWaiting(i) ==
    /\ calls' = [calls EXCEPT ![i].timedOut = TRUE]
    /\ UNCHANGED lateEstimates

\* the timer resolves the race with buildFallbackDueEstimate(); the estimator
\* is still running
RaceTimerResolves(i) ==
    /\ calls' = [calls EXCEPT ![i].timedOut = TRUE, ![i].dueAt = "fallback"]
    /\ lateEstimates' = lateEstimates + 1

\* setTimeout(..., dueEstimateWaitMs) fires before the estimator has settled
RaceTimer(i) ==
    /\ InFlight(i, "approve")
    /\ calls[i].dueAt = Racing /\ ~calls[i].timedOut
    /\ RaceTimerResolves(i)
    /\ resp' = NoResp
    /\ UNCHANGED <<store, arrived, meta, clock, booksCache, guard, sweeps, lists, sent,
                   recommendationsCache, arg, out>>

\* an estimator that lost its race settles: the race is already resolved
EstimatorLate ==
    /\ lateEstimates > 0
    /\ lateEstimates' = lateEstimates - 1
    /\ resp' = NoResp
    /\ UNCHANGED <<store, calls, arrived, meta, clock, booksCache, guard, sweeps, lists,
                   sent, recommendationsCache, arg, out>>

ApproveTx(i) ==
    /\ InFlight(i, "approve")
    /\ calls[i].dueAt # Racing
    /\ LET c == calls[i]
           r == c.requestId
           b == c.bookId IN
       IF ApproveRequestWhere(r) /\ ApproveBookWhere(b)
       THEN /\ requests' = [requests EXCEPT ![r].status = "APPROVED",
                                            ![r].reviewedById = c.viewer,
                                            ![r].memberSeen = FALSE]
            /\ book' = [book EXCEPT ![b].available = FALSE, ![b].requestPending = FALSE]
            /\ loans' = Append(loans, ApproveLoanData(c))
            /\ Finish(i, c, 200)
       ELSE /\ ApproveAbort(c)
            /\ Finish(i, c, 409)

\* ---- POST /borrow-requests/:requestId/decline ----
DeclineStart(v, r) ==
    /\ Arrives
    /\ Role(v) = "ADMIN"
    /\ LET c == [NoCall EXCEPT !.op = "decline", !.viewer = v, !.requestId = r] IN
       IF r > Len(requests) THEN Reject(c, 404)
       ELSE IF requests[r].status # "PENDING" THEN Reject(c, 409)
       ELSE Enter([c EXCEPT !.bookId = requests[r].bookId, !.userId = requests[r].userId])
    /\ UNCHANGED store

\* a faulty update for comparison: the status update without the PENDING test
DeclineRequestAnyStatus(r) == TRUE

DeclineRequestWhere(r) == requests[r].status = "PENDING"

DeclineBookWhere(b) == book[b].available /\ book[b].requestPending

DeclineTx(i) ==
    /\ InFlight(i, "decline")
    /\ LET c == calls[i]
           r == c.requestId
           b == c.bookId IN
       IF DeclineRequestWhere(r)
       THEN /\ requests' = [requests EXCEPT ![r].status = "DECLINED",
                                            ![r].reviewedById = c.viewer,
                                            ![r].memberSeen = FALSE]
            /\ book' = IF DeclineBookWhere(b)
                       THEN [book EXCEPT ![b].requestPending = FALSE]
                       ELSE book
            /\ UNCHANGED loans
            /\ Finish(i, c, 200)
       ELSE /\ UNCHANGED store
            /\ Finish(i, c, 409)

\* ---- POST /borrow-requests/me/mark-seen, and the unread count ----
Terminal == {"APPROVED", "DECLINED"}

\* a faulty where-clause for comparison: without userId: viewer.id
MarkSeenWhereAnyUser(v, r) == requests[r].status \in Terminal /\ ~requests[r].memberSeen

MarkSeenWhere(v, r) ==
    requests[r].userId = v /\ requests[r].status \in Terminal /\ ~requests[r].memberSeen

\* prisma.borrowRequest.count of the viewer's unacknowledged terminal requests
UnreadCountIn(rs, v) ==
    IF Role(v) = "MEMBER"
    THEN Cardinality({r \in 1..Len(rs) : rs[r].userId = v /\ rs[r].status \in Terminal
                                          /\ ~rs[r].memberSeen})
    ELSE 0

MarkSeen(v) ==
    /\ Arrives
    /\ LET hit == {r \in 1..Len(requests) : MarkSeenWhere(v, r)} IN
       IF Role(v) # "MEMBER"
       THEN /\ UNCHANGED requests
            /\ sent' = [status |-> 200, payload |-> 0, cached |-> FALSE]
       ELSE /\ requests' = [r \in 1..Len(requests) |->
                              IF r \in hit THEN [requests[r] EXCEPT !.memberSeen = TRUE]
                              ELSE requests[r]]
            /\ sent' = [status |-> 200, payload |-> Cardinality(hit), cached |-> FALSE]
    /\ resp' = [NoResp EXCEPT !.op = "markseen", !.viewer = v, !.status = 200]
    /\ UNCHANGED <<book, loans, calls, meta, clock, booksCache, guard, sweeps, lists, others>>

\* ---- PATCH /loans/:loanId/due-date ----
DueDateStart(v, l, due) ==
    /\ Arrives
    /\ Role(v) = "ADMIN"
    /\ LET c == [NoCall EXCEPT !.op = "duedate", !.viewer = v, !.loanId = l, !.dueAt = due] IN
       IF l > Len(loans) THEN Reject(c, 404)
       ELSE IF loans[l].returnedAt # 0 THEN Reject(c, 409)
       ELSE Enter([c EXCEPT !.bookId = loans[l].bookId, !.userId = loans[l].userId])
    /\ UNCHANGED store

\* prisma.loan.update where { id }: a statement of its own, after the read
DueDateWrite(i) ==
    /\ InFlight(i, "duedate")
    /\ LET c == calls[i] IN
       /\ loans' = [loans EXCEPT ![c.loanId].dueAt = c.dueAt]
       /\ UNCHANGED <<book, requests>>
       /\ Finish(i, c, 200)

\* ---- the listing cache ----
InvalidateBooksCache == booksCache' = NoEntry

\* what a listing query returns: the rows of the book table, all columns
Listing == [b \in Rows |-> [available |-> book[b].available,
                            requestPending |-> book[b].requestPending,
                            genre |-> meta[b].genre,
                            aiMetadata |-> meta[b].aiMetadata]]
NoPayload == << >>

ListReply == resp' = [NoResp EXCEPT !.op = "list", !.status = 200]
\* a step of the books router that sends no response
Silent == resp' = NoResp /\ sent' = NoSent

\* ---- enrichment runs ----
NoSnapshot == << >>
NewSweep(kind) == [kind |-> kind, read |-> FALSE, seen |-> NoSnapshot, todo |-> {},
                   updated |-> FALSE, failed |-> 0, recovered |-> FALSE,
                   isbn |-> NoIsbn, creating |-> FALSE, conflict |-> FALSE,
                   created |-> 0, reused |-> 0]
Running(k, kind) == k \in 1..Len(sweeps) /\ sweeps[k].kind = kind
AutoSweeps == {k \in 1..Len(sweeps) : sweeps[k].kind = "auto"}
\* enrichMissingCoreMetadata from the trigger or from its endpoint, enrichLibraryMetadata
ManualKinds == {"core", "library"}
SweepKinds == {"auto"} \cup ManualKinds

\* a faulty guard for comparison: the cooldown test without the in-progress test
TriggerGuardCooldownOnly ==
    clock - autoCoreEnrichmentLastRunAt >= AUTO_CORE_ENRICH_COOLDOWN_MS

\* the two early returns of maybeTriggerAutoCoreMetadataEnrichment, negated
TriggerGuard ==
    /\ ~autoCoreEnrichmentInProgress
    /\ ~(clock - autoCoreEnrichmentLastRunAt < AUTO_CORE_ENRICH_COOLDOWN_MS)

maybeTriggerAutoCoreMetadataEnrichment ==
    IF TriggerGuard
    THEN /\ autoCoreEnrichmentInProgress' = TRUE
         /\ autoCoreEnrichmentLastRunAt' = clock
         /\ sweeps' = Append(sweeps, NewSweep("auto"))
         /\ UNCHANGED completedAt
    ELSE UNCHANGED <<guard, sweeps>>

\* ---- GET /books ----
CacheHit(allowCache) == allowCache /\ booksCache.expiresAt > 0 /\ booksCache.expiresAt > clock

ListStart(allowCache) ==
    /\ arrived < NLists
    /\ arrived' = arrived + 1
    /\ IF CacheHit(allowCache)
       THEN /\ sent' = [status |-> 200, payload |-> booksCache.payload, cached |-> TRUE]
            /\ ListReply
            /\ UNCHANGED lists
       ELSE /\ lists' = Append(lists, [allowCache |-> allowCache, read |-> FALSE,
                                            payload |-> NoPayload])
            /\ resp' = NoResp
            /\ sent' = NoSent
    /\ UNCHANGED <<others, store, calls, meta, clock, booksCache, guard, sweeps>>

\* await prisma.book.findMany
ListQuery(i) ==
    /\ i \in 1..Len(lists)
    /\ ~lists[i].read
    /\ lists' = [lists EXCEPT ![i].read = TRUE, ![i].payload = Listing]
    /\ Silent
    /\ UNCHANGED <<others, store, calls, arrived, meta, clock, booksCache, guard, sweeps>>

\* a faulty body for comparison: the rows are read again after the trigger
ListBodyReadAgain(q) == Listing

ListBody(q) == q

\* from the query result to res.status(200).json(payload), without an await
ListFinish(i) ==
    /\ i \in 1..Len(lists)
    /\ lists[i].read
    /\ booksCache' = IF lists[i].allowCache
                      THEN [expiresAt |-> clock + BOOKS_CACHE_TTL_MS, payload |-> lists[i].payload]
                      ELSE booksCache
    /\ maybeTriggerAutoCoreMetadataEnrichment
    /\ sent' = [status |-> 200, payload |-> ListBody(lists[i].payload), cached |-> FALSE]
    /\ ListReply
    /\ lists' = RemoveAt(lists, i)
    /\ UNCHANGED <<others, store, calls, arrived, meta, clock>>

\* ---- enrichMissingCoreMetadata, started by the listing handler ----
NeedsCore(b) == meta[b].genre = Missing

\* await prisma.book.findMany where a core column is missing
SweepRead(k) ==
    /\ k \in 1..Len(sweeps)
    /\ sweeps[k].kind \in SweepKinds
    /\ ~sweeps[k].read
    /\ sweeps' = [sweeps EXCEPT ![k].read = TRUE,
                                 ![k].seen = [b \in {x \in Rows : NeedsCore(x)} |-> meta[b]],
                                 ![k].todo = {x \in Rows : NeedsCore(x)}]
    /\ Silent
    /\ UNCHANGED <<others, store, calls, arrived, meta, clock, booksCache, guard, lists>>

\* the columns the patch fills: those missing in the row as the run read it
CorePatch(row) == IF row.genre = Missing THEN [genre |-> External] ELSE [genre |-> row.genre]

\* a faulty loop for comparison: no try/catch inside it, the error ends the loop
RecordFailedAborts(k, b) == sweeps' = [sweeps EXCEPT ![k].todo = {}, ![k].failed = @ + 1]

\* catch { failedCount += 1; } and on to the next record
RecordFailed(k, b) == sweeps' = [sweeps EXCEPT ![k].todo = @ \ {b}, ![k].failed = @ + 1]

\* one round of the loop: the provider lookup, then prisma.book.update where { id }
SweepWrite(k, b) ==
    /\ k \in 1..Len(sweeps)
    /\ sweeps[k].kind \in SweepKinds
    /\ sweeps[k].read
    /\ b \in sweeps[k].todo
    /\ IF b \in Rows
       THEN /\ meta' = [meta EXCEPT ![b].genre = CorePatch(sweeps[k].seen[b]).genre,
                                    ![b].aiMetadata = TRUE]
            /\ sweeps' = [sweeps EXCEPT ![k].todo = @ \ {b}, ![k].updated = TRUE,
                                        ![k].recovered = @ \/ sweeps[k].failed > 0]
       ELSE /\ UNCHANGED meta
            /\ RecordFailed(k, b)
    /\ Silent
    /\ UNCHANGED <<others, store, calls, arrived, clock, booksCache, guard, lists>>

\* one round of the loop in which the provider lookup or the update throws
SweepRecordFails(k, b) ==
    /\ k \in 1..Len(sweeps)
    /\ sweeps[k].kind \in SweepKinds
    /\ sweeps[k].read
    /\ b \in sweeps[k].todo
    /\ RecordFailed(k, b)
    /\ UNCHANGED meta
    /\ Silent
    /\ UNCHANGED <<others, store, calls, arrived, clock, booksCache, guard, lists>>

\* a faulty release for comparison: the flag is cleared in .then(...) only
ReleasedInThenOnly(resolved) == autoCoreEnrichmentInProgress' = ~resolved

\* .finally(() => { autoCoreEnrichmentInProgress = false; })
Finally(resolved) == autoCoreEnrichmentInProgress' = FALSE

\* .then(...) and .finally(...) of the background run
AutoSweepDone(k) ==
    /\ Running(k, "auto")
    /\ sweeps[k].read
    /\ sweeps[k].todo = {}
    /\ IF sweeps[k].updated THEN InvalidateBooksCache ELSE UNCHANGED booksCache
    /\ Finally(TRUE)
    /\ completedAt' = clock
    /\ sweeps' = RemoveAt(sweeps, k)
    /\ Silent
    /\ UNCHANGED <<others, store, calls, arrived, meta, clock, autoCoreEnrichmentLastRunAt, lists>>

\* .catch(() => {}) and .finally(...): the run's findMany is rejected by the store
AutoSweepFail(k) ==
    /\ Running(k, "auto")
    /\ ~sweeps[k].read
    /\ Finally(FALSE)
    /\ completedAt' = clock
    /\ sweeps' = RemoveAt(sweeps, k)
    /\ Silent
    /\ UNCHANGED <<others, store, calls, arrived, meta, clock, booksCache,
                   autoCoreEnrichmentLastRunAt, lists>>

\* ---- POST /books/enrich-core-metadata, POST /books/enrich-metadata ----
EnrichReply(op, code) == resp' = [NoResp EXCEPT !.op = op, !.status = code] /\ sent' = NoSent

EnrichStart(v, kind) ==
    /\ Arrives
    /\ Role(v) = "ADMIN"
    /\ sweeps' = Append(sweeps, NewSweep(kind))
    /\ Silent
    /\ UNCHANGED <<others, store, calls, meta, clock, booksCache, guard, lists>>

EnrichDone(k) ==
    /\ k \in 1..Len(sweeps)
    /\ sweeps[k].kind \in ManualKinds
    /\ sweeps[k].read
    /\ sweeps[k].todo = {}
    /\ InvalidateBooksCache
    /\ sweeps' = RemoveAt(sweeps, k)
    /\ EnrichReply(sweeps[k].kind, 200)
    /\ UNCHANGED <<others, store, calls, arrived, meta, clock, guard, lists>>

\* ---- POST /books/import, for one candidate with ISBN x or without an ISBN ----
ImportStart(v, x) ==
    /\ Arrives
    /\ Role(v) = "ADMIN"
    /\ sweeps' = Append(sweeps, [NewSweep("import") EXCEPT !.isbn = x])
    /\ Silent
    /\ UNCHANGED <<others, store, calls, meta, clock, booksCache, guard, lists>>

\* the columns buildMetadataPatch fills: those missing in the row as it was read
MetadataPatch(row) == IF row.genre = Missing THEN {"genre"} ELSE {}

\* the rows that hold ISBN x
IsbnRows(x) == IF x = NoIsbn THEN {} ELSE {b \in Rows : meta[b].isbn = x}

\* persistExternalBooks: await prisma.book.findUnique / findFirst finds row b, by
\* the candidate's ISBN if a row holds it, else by title and author
ImportRead(k, b) ==
    /\ Running(k, "import")
    /\ ~sweeps[k].read
    /\ b \in Rows
    /\ IsbnRows(sweeps[k].isbn) # {} => b \in IsbnRows(sweeps[k].isbn)
    /\ sweeps' = [sweeps EXCEPT ![k].read = TRUE,
                                 ![k].seen = [x \in {b} |-> meta[x]],
                                 ![k].todo = IF MetadataPatch(meta[b]) = {} THEN {} ELSE {b},
                                 ![k].reused = @ + 1]
    /\ Silent
    /\ UNCHANGED <<others, store, calls, arrived, meta, clock, booksCache, guard, lists>>

\* enrichExistingBook: prisma.book.update where { id }, data: patch
ImportWrite(k, b) ==
    /\ Running(k, "import")
    /\ sweeps[k].read
    /\ b \in sweeps[k].todo
    /\ IF b \in Rows
       THEN /\ meta' = [meta EXCEPT ![b].genre =
                           IF "genre" \in MetadataPatch(sweeps[k].seen[b]) THEN External ELSE @]
            /\ sweeps' = [sweeps EXCEPT ![k].todo = @ \ {b}, ![k].updated = TRUE]
            /\ Silent
       ELSE /\ UNCHANGED meta
            /\ sweeps' = RemoveAt(sweeps, k)
            /\ EnrichReply("import", 500)
    /\ UNCHANGED <<others, store, calls, arrived, clock, booksCache, guard, lists>>

\* persistExternalBooks: neither findUnique nor findFirst finds a row
ImportReadNone(k) ==
    /\ Running(k, "import")
    /\ ~sweeps[k].read
    /\ IsbnRows(sweeps[k].isbn) = {}
    /\ sweeps' = [sweeps EXCEPT ![k].read = TRUE, ![k].creating = TRUE]
    /\ Silent
    /\ UNCHANGED <<others, store, calls, arrived, meta, clock, booksCache, guard, lists>>

\* ids of created rows follow the ids the requests of the model use
NewRowId == CHOOSE n \in (MissingBook + 1)..(MissingBook + NCalls) : n \notin Rows

\* a faulty handler for comparison: the unique violation is thrown on
OnUniqueViolationRethrow(k) ==
    /\ sweeps' = RemoveAt(sweeps, k)
    /\ EnrichReply("import", 500)

\* catch (error) with code P2002 and candidate.isbn: go on to re-fetch the row
OnUniqueViolation(k) ==
    /\ sweeps' = [sweeps EXCEPT ![k].conflict = TRUE]
    /\ Silent

\* prisma.book.create; the isbn column is unique
ImportCreate(k) ==
    /\ Running(k, "import")
    /\ sweeps[k].creating /\ ~sweeps[k].conflict
    /\ IF IsbnRows(sweeps[k].isbn) # {}
       THEN /\ OnUniqueViolation(k)
            /\ UNCHANGED <<book, meta>>
       ELSE /\ book' = [b \in Rows \cup {NewRowId} |->
                          IF b = NewRowId THEN [available |-> TRUE, requestPending |-> FALSE]
                          ELSE book[b]]
            /\ meta' = [b \in Rows \cup {NewRowId} |->
                          IF b = NewRowId
                          THEN [genre |-> External, aiMetadata |-> FALSE, isbn |-> sweeps[k].isbn]
                          ELSE meta[b]]
            /\ sweeps' = [sweeps EXCEPT ![k].creating = FALSE, ![k].created = @ + 1]
            /\ Silent
    /\ UNCHANGED <<others, loans, requests, calls, arrived, clock, booksCache, guard, lists>>

\* after the unique violation: prisma.book.findUnique where { isbn }
ImportRefetch(k) ==
    /\ Running(k, "import")
    /\ sweeps[k].creating /\ sweeps[k].conflict
    /\ IF IsbnRows(sweeps[k].isbn) # {}
       THEN /\ sweeps' = [sweeps EXCEPT ![k].creating = FALSE, ![k].reused = @ + 1]
            /\ Silent
       ELSE /\ sweeps' = RemoveAt(sweeps, k)
            /\ EnrichReply("import", 500)
    /\ UNCHANGED <<others, store, calls, arrived, meta, clock, booksCache, guard, lists>>

ImportDone(k) ==
    /\ Running(k, "import")
    /\ ~sweeps[k].creating
    /\ sweeps[k].read
    /\ sweeps[k].todo = {}
    /\ InvalidateBooksCache
    /\ sweeps' = RemoveAt(sweeps, k)
    /\ EnrichReply("import", 200)
    /\ UNCHANGED <<others, store, calls, arrived, meta, clock, guard, lists>>

\* ---- PATCH /books/:bookId ----
PatchBook(v, b) ==
    /\ Arrives
    /\ Role(v) = "ADMIN"
    /\ IF b \in Rows
       THEN /\ meta' = [meta EXCEPT ![b].genre = ByAdmin]
            /\ InvalidateBooksCache
            /\ EnrichReply("patch", 200)
       ELSE /\ UNCHANGED <<meta, booksCache>>
            /\ EnrichReply("patch", 500)
    /\ UNCHANGED <<others, store, calls, clock, guard, sweeps, lists>>

\* time passes
TicksTaken ==
    ((clock - StartTime) \div AUTO_CORE_ENRICH_COOLDOWN_MS)
    + (((clock - StartTime) % AUTO_CORE_ENRICH_COOLDOWN_MS) \div BOOKS_CACHE_TTL_MS)

Tick(d) ==
    /\ TicksTaken < NTicks
    /\ clock' = clock + d
    /\ Silent
    /\ UNCHANGED <<others, store, calls, arrived, meta, booksCache, guard, sweeps, lists>>

\* ---- DELETE /books/:bookId ----
DeleteStart(v, b) ==
    /\ Arrives
    /\ Role(v) = "ADMIN"
    /\ LET c == [NoCall EXCEPT !.op = "delete", !.viewer = v, !.bookId = b] IN
       IF ActiveLoans(b) # {} THEN Reject(c, 409)
       ELSE Enter(c)
    /\ UNCHANGED store

\* What the store does with the loans and requests of a deleted book is fixed by the
\* relation's referential action in the Prisma schema: either they go with the book,
\* or the delete is refused while any of them exists.
ReferentialActions == {"Cascade", "Restrict"}
DeletedLoan == [bookId |-> 0, userId |-> NoUser, dueAt |-> NoDate, returnedAt |-> 0]
DeletedRequest == [userId |-> NoUser, bookId |-> 0, status |-> "DELETED",
                   reviewedById |-> NoUser, memberSeen |-> TRUE]
Referenced(b) ==
    \/ \E l \in 1..Len(loans) : loans[l].bookId = b
    \/ \E r \in 1..Len(requests) : requests[r].bookId = b

\* prisma.book.delete where { id }: a statement of its own, after the read
DeleteWrite(i, onDelete) ==
    /\ InFlight(i, "delete")
    /\ LET c == calls[i]
           b == c.bookId IN
       IF b \notin Rows \/ (onDelete = "Restrict" /\ Referenced(b))
       THEN /\ UNCHANGED store
            /\ Finish(i, c, 500)
       ELSE /\ book' = [x \in Rows \ {b} |-> book[x]]
            /\ meta' = [x \in Rows \ {b} |-> meta[x]]
            /\ loans' = [l \in 1..Len(loans) |->
                           IF loans[l].bookId = b THEN DeletedLoan ELSE loans[l]]
            /\ requests' = [r \in 1..Len(requests) |->
                              IF requests[r].bookId = b THEN DeletedRequest ELSE requests[r]]
            /\ InvalidateBooksCache
            /\ UNCHANGED <<clock, guard, sweeps, lists, sent, others>>
            /\ Leave(i, c, 204)

\* ---- POST /ai/recommendations ----
\* prisma.loan.findMany({ where: { userId: viewer.id } }); [] for a guest
History(v) == {l \in 1..Len(loans) : v # NoUser /\ loans[l].userId = v}

\* recommendationsCache.get(cacheKey), cacheKey = viewer : limit : history.length
CachedFor(v, n) == {e \in recommendationsCache : e.viewer = v /\ e.sourceLoans = n}

RecommendReply(v, data, cached) ==
    /\ resp' = [NoResp EXCEPT !.op = "recommend", !.viewer = v, !.status = 200]
    /\ sent' = [status |-> 200, payload |-> data, cached |-> cached]

\* the handler up to the cache lookup: a live entry is the response
RecommendStart(v) ==
    /\ Arrives
    /\ LET history == History(v)
           c == [NoCall EXCEPT !.op = "recommend", !.viewer = v,
                               !.sourceLoans = Cardinality(history),
                               !.borrowed = {loans[l].bookId : l \in history}]
           live == {e \in CachedFor(v, c.sourceLoans) : e.expiresAt > clock}
       IN IF live # {}
          THEN /\ calls' = calls
               /\ \E e \in live : RecommendReply(v, e.data, TRUE)
          ELSE /\ calls' = Append(calls, c)
               /\ Silent
    /\ UNCHANGED <<store, meta, clock, booksCache, guard, sweeps, lists, others>>

\* a faulty candidate query for comparison: request-pending rows are candidates
CandidatesAvailableOnly(c) == {b \in Rows : book[b].available /\ b \notin c.borrowed}

\* runPrimaryCandidatesQuery: available, not request-pending, id notIn borrowedBookIds
Candidates(c) ==
    {b \in Rows : book[b].available /\ ~book[b].requestPending /\ b \notin c.borrowed}

\* the candidate query, the scoring, recommendationsCache.set and the response
RecommendQuery(i) ==
    /\ InFlight(i, "recommend")
    /\ LET c == calls[i]
           data == Candidates(c)
       IN /\ recommendationsCache' =
                (recommendationsCache \ CachedFor(c.viewer, c.sourceLoans))
                \cup {[viewer |-> c.viewer, sourceLoans |-> c.sourceLoans,
                       expiresAt |-> clock + RECOMMENDATIONS_CACHE_TTL_MS, data |-> data]}
          /\ RecommendReply(c.viewer, data, FALSE)
    /\ calls' = RemoveAt(calls, i)
    /\ UNCHANGED <<store, arrived, meta, clock, booksCache, guard, sweeps, lists,
                   lateEstimates, arg, out>>

\* ---- lib/external-books.ts: buildMetadataPatch, enrichExistingBook ----
NullText == "<null>"     \* a string column or field that is null
NullNumber == -1         \* a number column or field that is null

\* author.trim().toLowerCase()
TrimLower(author) ==
    CASE author = "Unknown Author" -> "unknown author"
      [] author = " Unknown " -> "unknown"
      [] author = "Unknown" -> "unknown"
      [] author = "N/A" -> "n/a"
      [] author = "Jane Roe" -> "jane roe"
      [] author = "Ann Lee" -> "ann lee"
      [] author = "Frank Herbert" -> "frank herbert"
      [] author = "FRANK HERBERT" -> "frank herbert"
      [] author = "Herbert" -> "herbert"
      [] author = "Jane Austen" -> "jane austen"
      [] OTHER -> author

isUnknownAuthor(author) == TrimLower(author) \in {"unknown author", "unknown", "n/a", "na", "-"}

\* truthiness of a string or null, and of a number or null
HasText(x) == x # NullText /\ x # ""
HasNumber(x) == x # NullNumber /\ x # 0

\* the keys the patch gets, with the rating tests as the code has them
PatchKeys(existing, candidate) ==
    {k \in {"author"} :
        isUnknownAuthor(existing.author) /\ candidate.author # ""
        /\ ~isUnknownAuthor(candidate.author)}
    \cup {k \in {"coverUrl", "description", "genre", "isbn"} :
            ~HasText(existing[k]) /\ HasText(candidate[k])}
    \cup {k \in {"publishedYear"} : ~HasNumber(existing[k]) /\ HasNumber(candidate[k])}
    \cup {k \in {"averageRating", "ratingsCount"} :
            existing[k] = NullNumber /\ candidate[k] # NullNumber}

\* a faulty patch for comparison: the ratings are tested like the other fields,
\* if (!existing.averageRating && candidate.averageRating !== null)
buildMetadataPatchFalsyRating(existing, candidate) ==
    LET keys == PatchKeys(existing, candidate)
                \cup {k \in {"averageRating", "ratingsCount"} :
                        ~HasNumber(existing[k]) /\ candidate[k] # NullNumber}
    IN [k \in keys |-> candidate[k]]

buildMetadataPatch(existing, candidate) ==
    [k \in PatchKeys(existing, candidate) |-> candidate[k]]

\* prisma.book.update({ where: { id }, data: patch }) on the row
Updated(row, patch) == [k \in DOMAIN row |-> IF k \in DOMAIN patch THEN patch[k] ELSE row[k]]

\* enrichExistingBook(existing, candidate): the row it returns
enrichExistingBook(existing, candidate) ==
    LET patch == buildMetadataPatch(existing, candidate) IN
    IF DOMAIN patch = {} THEN existing ELSE Updated(existing, patch)

PatchIdle == [step |-> 0, before |-> << >>, row |-> << >>, keys |-> {}]

\* enrichExistingBook on the row as the last application left it
ApplyPatch ==
    /\ out.step < 2
    /\ LET existing == IF out.step = 0 THEN arg.existing ELSE out.row IN
       out' = [step |-> out.step + 1, before |-> existing,
               row |-> enrichExistingBook(existing, arg.candidate),
               keys |-> DOMAIN buildMetadataPatch(existing, arg.candidate)]
    /\ UNCHANGED <<store, calls, arrived, resp, meta, clock, booksCache, guard, sweeps,
                   lists, sent, lateEstimates, recommendationsCache, arg>>

\* ---- lib/external-books.ts: hashString, buildSyntheticCorePatch ----
\* A string is the sequence of its UTF-16 code units. An unsigned 32-bit number
\* is kept as two 16-bit halves, hi * 65536 + lo.
Half == 65536
Bar == 124               \* "|".charCodeAt(0)

\* (hash * 31 + code) >>> 0
HashStep(hash, code) ==
    LET low == hash.lo * 31 + code
    IN [hi |-> (hash.hi * 31 + low \div Half) % Half, lo |-> low % Half]

\* the loop of hashString over input[1..n]
RECURSIVE HashUpTo(_, _)
HashUpTo(input, n) ==
    IF n = 0 THEN [hi |-> 0, lo |-> 0] ELSE HashStep(HashUpTo(input, n - 1), input[n])

hashString(input) == HashUpTo(input, Len(input))

\* a faulty remainder for comparison: the hash read as a signed 32-bit number,
\* as (hash * 31 + code) | 0 would leave it; the remainder has the hash's sign
RemainderSigned(hash, m) ==
    LET r == ((hash.hi % m) * (Half % m) + hash.lo) % m
        wrap == ((Half % m) * (Half % m)) % m
    IN IF hash.hi >= Half \div 2 THEN 0 - ((wrap - r + m) % m) ELSE r

\* hash % m
Remainder(hash, m) == ((hash.hi % m) * (Half % m) + hash.lo) % m

\* buildSyntheticCorePatch for a row without rating and count, nothing pending:
\* averageRating in tenths, Number((3.4 + (hash % 14) * 0.1).toFixed(1)) * 10
SyntheticRatings(title, author) ==
    LET hash == hashString(title \o <<Bar>> \o author)
    IN [hash |-> hash,
        averageRating |-> 34 + Remainder(hash, 14),
        ratingsCount |-> 12 + Remainder(hash, 240)]

SynthIdle == [step |-> 0, first |-> << >>, last |-> << >>]

\* buildSyntheticCorePatch on the same row once more
Synthesize ==
    /\ out.step < 2
    /\ LET patch == SyntheticRatings(arg.title, arg.author) IN
       out' = [step |-> out.step + 1,
               first |-> IF out.step = 0 THEN patch ELSE out.first,
               last |-> patch]
    /\ UNCHANGED <<store, calls, arrived, resp, meta, clock, booksCache, guard, sweeps,
                   lists, sent, lateEstimates, recommendationsCache, arg>>

\* ---- lib/reading-time.ts ----
\* A string is a sequence of tokens: words, as written, and punctuation.
minimumDays == 14
maximumDays == 45
fallbackDays == 30
NoPageCount == -1        \* pageCount: null

Punctuation == {"-", "&", "/"}
Lower(w) ==
    CASE w = "Dune" -> "dune"
      [] w = "Messiah" -> "messiah"
      [] w = "Herbert" -> "herbert"
      [] w = "Austen" -> "austen"
      [] w = "Emma" -> "emma"
      [] w = "Young" -> "young"
      [] w = "Adult" -> "adult"
      [] w = "Children" -> "children"
      [] w = "Computer" -> "computer"
      [] w = "Science" -> "science"
      [] w = "Fantasy" -> "fantasy"
      [] w = "Classic" -> "classic"
      [] w = "Cooking" -> "cooking"
      [] w = "DUNE" -> "dune"
      [] w = "Frank" -> "frank"
      [] w = "FRANK" -> "frank"
      [] w = "HERBERT" -> "herbert"
      [] w = "Jane" -> "jane"
      [] w = "Unknown" -> "unknown"
      [] w = "Author" -> "author"
      [] OTHER -> w
IsWord(w) == w \notin Punctuation

\* value.toLowerCase().replace(/[^a-z0-9]+/g, " ").trim()
normalize(value) == SelectSeq([i \in DOMAIN value |-> Lower(value[i])], IsWord)

\* value.includes(part), on whole words
includes(value, part) ==
    \E i \in 0..(Len(value) - Len(part)) : SubSeq(value, i + 1, i + Len(part)) = part

\* what fetch() and response.json() can do
FetchKinds == {"rejected", "aborted", "unparsable", "response"}
NoBody == [present |-> FALSE, items |-> << >>]

\* a faulty fetchJson for comparison: no catch
fetchJsonUncaught(o) ==
    IF o.kind # "response" THEN [threw |-> TRUE, payload |-> NoBody]
    ELSE IF ~o.ok THEN [threw |-> FALSE, payload |-> NoBody]
    ELSE [threw |-> FALSE, payload |-> [present |-> TRUE, items |-> o.items]]

fetchJson(o) ==
    IF o.kind # "response" THEN [threw |-> FALSE, payload |-> NoBody]
    ELSE IF ~o.ok THEN [threw |-> FALSE, payload |-> NoBody]
    ELSE [threw |-> FALSE, payload |-> [present |-> TRUE, items |-> o.items]]

estimatePagesPerDay(category) ==
    IF category = << >> THEN 35
    ELSE LET value == normalize(category) IN
         IF includes(value, <<"children">>) \/ includes(value, <<"young", "adult">>) THEN 50
         ELSE IF \/ includes(value, <<"science">>) \/ includes(value, <<"engineering">>)
                 \/ includes(value, <<"technology">>) \/ includes(value, <<"computer">>) THEN 25
         ELSE IF \/ includes(value, <<"fantasy">>) \/ includes(value, <<"historical">>)
                 \/ includes(value, <<"classic">>) THEN 30
         ELSE 35

\* Math.round(n / d) for n >= 0 and d > 0: halves go up
Round(n, d) == (2 * n + d) \div (2 * d)
Max(a, b) == IF a >= b THEN a ELSE b
Min(a, b) == IF a <= b THEN a ELSE b

\* faulty roundings and clampings for comparison
clampDaysFloor(n, d) == Max(minimumDays, Min(maximumDays, n \div d))
clampDaysNoMinimum(n, d) == Min(maximumDays, Round(n, d))

\* clampDays(n / d)
clampDays(n, d) == Max(minimumDays, Min(maximumDays, Round(n, d)))

\* the similarity of a candidate's title or author to the input's
Similarity(candidate, wanted, exact, partial) ==
    IF candidate = wanted THEN exact
    ELSE IF candidate # << >> /\ wanted # << >>
            /\ (includes(candidate, wanted) \/ includes(wanted, candidate)) THEN partial
    ELSE 0

Score(input, item) ==
    Similarity(normalize(item.title), normalize(input.title), 30, 15)
    + Similarity(normalize(item.author), normalize(input.author), 20, 10)

NoGoogle == [pageCount |-> 0, category |-> << >>]
NoBest == [score |-> -1, pageCount |-> 0, category |-> << >>]

\* the loop of findGooglePageCount over items[1..n]
RECURSIVE GoogleBest(_, _, _)
GoogleBest(input, items, n) ==
    IF n = 0 THEN NoBest
    ELSE LET best == GoogleBest(input, items, n - 1)
             volume == items[n]
             score == Score(input, volume) + Min(15, volume.pageCount \div 40)
         IN IF volume.pageCount = 0 \/ volume.pageCount < 30 THEN best
            ELSE IF best = NoBest \/ score > best.score
                 THEN [score |-> score, pageCount |-> volume.pageCount,
                       category |-> volume.category]
            ELSE best

findGooglePageCount(input, payload) ==
    LET items == IF payload.present THEN payload.items ELSE << >>
        best == GoogleBest(input, items, Len(items))
    IN IF best = NoBest THEN NoGoogle
       ELSE [pageCount |-> best.pageCount, category |-> best.category]

\* the loop of findOpenLibraryPageCount over docs[1..n]
RECURSIVE OpenLibraryBest(_, _, _)
OpenLibraryBest(input, docs, n) ==
    IF n = 0 THEN NoBest
    ELSE LET best == OpenLibraryBest(input, docs, n - 1)
             pages == docs[n].pageCount
             score == Score(input, docs[n])
         IN IF pages = 0 \/ pages < 30 THEN best
            ELSE IF best = NoBest \/ score > best.score
                 THEN [score |-> score, pageCount |-> pages, category |-> << >>]
            ELSE best

\* 0 stands for null
findOpenLibraryPageCount(input, payload) ==
    LET docs == IF payload.present THEN payload.items ELSE << >>
    IN OpenLibraryBest(input, docs, Len(docs)).pageCount

NoEstimate == [days |-> 0, source |-> "none", pageCount |-> 0]
EstimateIdle == [step |-> "idle", yields |-> FALSE, estimate |-> NoEstimate]
Returned(o, e) == [step |-> "done", yields |-> o.yields, estimate |-> e]

\* the response holds a page count of at least 30
Yields(o) ==
    o.kind = "response" /\ o.ok /\ \E i \in DOMAIN o.items : o.items[i].pageCount >= 30

\* arg: the input, and the provider response a returned estimate was made from
Awaiting(input) == [input |-> input, kind |-> "none", ok |-> FALSE, items |-> << >>]
Settled(input, o) == [input |-> input, kind |-> o.kind, ok |-> o.ok, items |-> o.items]

\* estimateLoanDueDate(input) up to the first await
EstimateStart(input) ==
    /\ out.step \in {"idle", "done"}
    /\ arg' = Awaiting(input)
    /\ out' = [EstimateIdle EXCEPT !.step = "google"]
    /\ UNCHANGED <<store, calls, arrived, resp, meta, clock, booksCache, guard, sweeps,
                   lists, sent, lateEstimates, recommendationsCache>>

\* a library call that threw
Thrown == [EstimateIdle EXCEPT !.step = "failed"]

\* the Google Books call settles with outcome o
EstimateGoogle(o) ==
    /\ out.step = "google"
    /\ LET fetched == fetchJson(o)
           google == findGooglePageCount(arg.input, fetched.payload)
           days == clampDays(google.pageCount, estimatePagesPerDay(google.category))
           seen == [out EXCEPT !.yields = Yields(o)]
       IN out' = IF fetched.threw THEN Thrown
                 ELSE IF google # NoGoogle
                 THEN Returned(seen, [days |-> days, source |-> "google_books",
                                      pageCount |-> google.pageCount])
                 ELSE [seen EXCEPT !.step = "openlibrary"]
    /\ arg' = IF out'.step = "openlibrary" THEN arg ELSE Settled(arg.input, o)
    /\ UNCHANGED <<store, calls, arrived, resp, meta, clock, booksCache, guard, sweeps,
                   lists, sent, lateEstimates, recommendationsCache>>

\* the Open Library call settles with outcome o
EstimateOpenLibrary(o) ==
    /\ out.step = "openlibrary"
    /\ arg' = Settled(arg.input, o)
    /\ LET fetched == fetchJson(o)
           openLibraryPages == findOpenLibraryPageCount(arg.input, fetched.payload)
           seen == [out EXCEPT !.yields = out.yields \/ Yields(o)]
       IN out' = IF fetched.threw THEN Thrown
                 ELSE IF openLibraryPages # 0
                 THEN Returned(seen, [days |-> clampDays(openLibraryPages, 35),
                                      source |-> "openlibrary",
                                      pageCount |-> openLibraryPages])
                 ELSE Returned(seen, [days |-> fallbackDays, source |-> "fallback",
                                      pageCount |-> NoPageCount])
    /\ UNCHANGED <<store, calls, arrived, resp, meta, clock, booksCache, guard, sweeps,
                   lists, sent, lateEstimates, recommendationsCache>>

\* the day count for a usable page count and a category, as estimateLoanDueDate
\* computes it from a Google Books result
EstimateDays ==
    /\ out.step = "idle"
    /\ out' = Returned(out, [days |-> clampDays(arg.pageCount,
                                                estimatePagesPerDay(arg.category)),
                             source |-> "google_books", pageCount |-> arg.pageCount])
    /\ UNCHANGED <<store, calls, arrived, resp, meta, clock, booksCache, guard, sweeps,
                   lists, sent, lateEstimates, recommendationsCache, arg>>

\* ---- lib/external-books.ts: dedupeCandidates ----
\* A title or author is a sequence of words as written; an ISBN is one string.
toLowerCase(value) == [i \in DOMAIN value |-> Lower(value[i])]

\* a faulty key for comparison: title and author as written
candidateKeyAsWritten(candidate) ==
    IF candidate.isbn # NullText THEN <<candidate.isbn>>
    ELSE candidate.title \o <<"|">> \o candidate.author

\* candidate.isbn ?? `${title.toLowerCase()}|${author.toLowerCase()}`
candidateKey(candidate) ==
    IF candidate.isbn # NullText THEN <<candidate.isbn>>
    ELSE toLowerCase(candidate.title) \o <<"|">> \o toLowerCase(candidate.author)

DedupeIdle == [next |-> 1, seen |-> {}, output |-> << >>]

\* one turn of the loop of dedupeCandidates over arg
DedupeStep ==
    /\ out.next <= Len(arg)
    /\ LET candidate == arg[out.next]
           key == candidateKey(candidate)
       IN out' = IF key \in out.seen
                 THEN [out EXCEPT !.next = @ + 1]
                 ELSE [next |-> out.next + 1,
                       seen |-> out.seen \cup {key},
                       output |-> Append(out.output, candidate)]
    /\ UNCHANGED <<store, calls, arrived, resp, meta, clock, booksCache, guard, sweeps,
                   lists, sent, lateEstimates, recommendationsCache, arg>>

\* ---- lib/external-books.ts: candidateScore ----
\* the words and punctuation of a title or author, as written
Words(text) ==
    CASE text = "Dune" -> <<"Dune">>
      [] text = "DUNE" -> <<"DUNE">>
      [] text = "Dune - Messiah" -> <<"Dune", "-", "Messiah">>
      [] text = "Emma" -> <<"Emma">>
      [] text = "Frank Herbert" -> <<"Frank", "Herbert">>
      [] text = "FRANK HERBERT" -> <<"FRANK", "HERBERT">>
      [] text = "Herbert" -> <<"Herbert">>
      [] text = "Jane Austen" -> <<"Jane", "Austen">>
      [] text = "Unknown Author" -> <<"Unknown", "Author">>
      [] OTHER -> << >>

\* value.toLowerCase().replace(/[^a-z0-9]+/g, " ").trim()
normalizeForCompare(value) == normalize(Words(value))

IsbnScore(local, candidate) ==
    IF HasText(local.isbn) /\ HasText(candidate.isbn)
    THEN IF local.isbn = candidate.isbn THEN 100 ELSE 0 - 30
    ELSE 0

\* 40 for equal, 20 for containment between non-empty texts; 25 and 10 for authors
TextScore(a, b, equal, partial) ==
    IF a = b THEN equal
    ELSE IF a # << >> /\ b # << >> /\ (includes(a, b) \/ includes(b, a)) THEN partial
    ELSE 0

\* a faulty score for comparison: a fillable field counts 8
candidateScoreEight(local, candidate) ==
    IsbnScore(local, candidate)
    + TextScore(normalizeForCompare(local.title), normalizeForCompare(candidate.title), 40, 20)
    + TextScore(normalizeForCompare(local.author), normalizeForCompare(candidate.author), 25, 10)
    + Cardinality(DOMAIN buildMetadataPatch(local, candidate)) * 8

candidateScore(local, candidate) ==
    IsbnScore(local, candidate)
    + TextScore(normalizeForCompare(local.title), normalizeForCompare(candidate.title), 40, 20)
    + TextScore(normalizeForCompare(local.author), normalizeForCompare(candidate.author), 25, 10)
    + Cardinality(DOMAIN buildMetadataPatch(local, candidate)) * 6

ScoreIdle == [done |-> FALSE, first |-> 0, second |-> 0]

\* candidateScore of two candidates for one catalog row
ScoreBoth ==
    /\ ~out.done
    /\ out' = [done |-> TRUE,
               first |-> candidateScore(arg.book, arg.first),
               second |-> candidateScore(arg.book, arg.second)]
    /\ UNCHANGED <<store, calls, arrived, resp, meta, clock, booksCache, guard, sweeps,
                   lists, sent, lateEstimates, recommendationsCache, arg>>

\* ---- lib/external-books.ts: findBestCandidateForBook ----
NegInfinity == 0 - 1000000      \* -Infinity, below every score
NoCandidate == [title |-> NullText]

\* the queries, in the order they are tried
attempts(local) ==
    (IF HasText(local.isbn) THEN << <<"isbn:", local.isbn>> >> ELSE << >>)
    \o << <<local.title, " ", local.author>>, <<local.title>> >>

\* a faulty test for comparison: the last of equal scores wins
ReplacesOnTie(score, bestScore) == score >= bestScore

\* if (score > bestScore)
Replaces(score, bestScore) == score > bestScore

\* the inner loop over candidates[1..n], from the best of the attempts before
RECURSIVE BestUpTo(_, _, _, _)
BestUpTo(local, candidates, n, before) ==
    IF n = 0 THEN before
    ELSE LET sofar == BestUpTo(local, candidates, n - 1, before)
             score == candidateScore(local, candidates[n])
         IN IF Replaces(score, sofar.bestScore)
            THEN [best |-> candidates[n], bestScore |-> score]
            ELSE sofar

FindIdle ==
    [queries |-> << >>, seen |-> << >>, best |-> NoCandidate, bestScore |-> NegInfinity,
     returned |-> FALSE, result |-> NoCandidate]

\* one attempt: the query, the provider's deduplicated candidates, the return at
\* 25 and, after the last attempt, the return at 18 or of null
FindAttempt(candidates) ==
    /\ ~out.returned
    /\ Len(out.queries) < Len(attempts(arg))
    /\ LET query == attempts(arg)[Len(out.queries) + 1]
           now == BestUpTo(arg, candidates, Len(candidates),
                           [best |-> out.best, bestScore |-> out.bestScore])
           last == Len(out.queries) + 1 = Len(attempts(arg))
           enough == now.best # NoCandidate /\ now.bestScore >= 25
           atLeast == now.best # NoCandidate /\ now.bestScore >= 18
       IN out' = [queries |-> Append(out.queries, query),
                  seen |-> Append(out.seen, candidates),
                  best |-> now.best,
                  bestScore |-> now.bestScore,
                  returned |-> enough \/ last,
                  result |-> IF enough \/ (last /\ atLeast) THEN now.best ELSE NoCandidate]
    /\ UNCHANGED <<store, calls, arrived, resp, meta, clock, booksCache, guard, sweeps,
                   lists, sent, lateEstimates, recommendationsCache, arg>>

\* ---- POST /ai/recommendations: weights, score and order ----
\* Scores are in hundredths, ratings in tenths; history is newest first.
NoGenre == "<no genre>"

\* Math.max(1, 5 - Math.floor(index / 8)), index from 0
recencyWeight(index) == Max(1, 5 - (index \div 8))

\* genreWeights.get(genre) ?? 0 and authorWeights.get(author) ?? 0
RECURSIVE WeightUpTo(_, _, _, _)
WeightUpTo(history, n, field, value) ==
    IF n = 0 THEN 0
    ELSE WeightUpTo(history, n - 1, field, value)
         + (IF history[n][field] = value THEN recencyWeight(n - 1) ELSE 0)
genreWeight(history, genre) ==
    IF genre = NoGenre THEN 0 ELSE WeightUpTo(history, Len(history), "genre", genre)
authorWeight(history, author) == WeightUpTo(history, Len(history), "author", author)

\* Math.log10(n), rounded to hundredths, of the counts in use
Log10(n) ==
    CASE n = 1 -> 0
      [] n = 18 -> 126
      [] n = 1000 -> 300
      [] OTHER -> 0

\* a faulty score for comparison: the genre weight is left out
recommendationScoreNoGenre(history, candidate) ==
    authorWeight(history, candidate.author) * 140
    + (IF history = << >> THEN 200 ELSE 0)
    + (IF candidate.averageRating = NullNumber THEN 0 ELSE candidate.averageRating * 15)
    + Min(200, Log10((IF candidate.ratingsCount = NullNumber THEN 0
                      ELSE candidate.ratingsCount) + 1))
    + 100

\* Number(score.toFixed(2)) of an available candidate
recommendationScore(history, candidate) ==
    genreWeight(history, candidate.genre) * 120
    + authorWeight(history, candidate.author) * 140
    + (IF history = << >> THEN 200 ELSE 0)
    + (IF candidate.averageRating = NullNumber THEN 0 ELSE candidate.averageRating * 15)
    + Min(200, Log10((IF candidate.ratingsCount = NullNumber THEN 0
                      ELSE candidate.ratingsCount) + 1))
    + 100

\* scored[1..n] sorted by descending score, equal scores in their given order
RECURSIVE SortedUpTo(_, _)
SortedUpTo(scored, n) ==
    IF n = 0 THEN << >>
    ELSE LET before == SortedUpTo(scored, n - 1)
             keep == {i \in DOMAIN before :
                         before[i].recommendationScore >= scored[n].recommendationScore}
         IN SubSeq(before, 1, Cardinality(keep)) \o <<scored[n]>>
            \o SubSeq(before, Cardinality(keep) + 1, Len(before))

RankIdle == [done |-> FALSE, data |-> << >>]

\* the handler from the weights to the payload, for the history and the
\* candidates the two queries returned
Rank ==
    /\ ~out.done
    /\ LET scored == [i \in DOMAIN arg.candidates |->
                        [id |-> i,
                         recommendationScore |->
                             recommendationScore(arg.history, arg.candidates[i])]]
           sorted == SortedUpTo(scored, Len(scored))
       IN out' = [done |-> TRUE, data |-> SubSeq(sorted, 1, Min(arg.limit, Len(sorted)))]
    /\ UNCHANGED <<store, calls, arrived, resp, meta, clock, booksCache, guard, sweeps,
                   lists, sent, lateEstimates, recommendationsCache, arg>>

\* ---- provider calls and store writes, await by await ----
\* One operation at a time, at the grain of its awaits: pc is the await the
\* handler is suspended at, tx whether its transaction or single write is open
\* in the store, http the provider calls in flight, estimator where
\* estimateLoanDueDate is, rows the selected rows or candidates still to do,
\* made the provider calls made for the current row.
LookupCalls == 6         \* three attempts, each asking up to two providers
OverlapIdle ==
    [op |-> "none", pc |-> "idle", tx |-> FALSE, stmt |-> 0, http |-> {},
     estimator |-> "none", timedOut |-> FALSE, rows |-> 0, made |-> 0]
Statements(op) == IF op = "checkout" THEN 2 ELSE 4
Conditional(op) == IF op = "checkout" THEN 1 ELSE 2

Becomes(o) ==
    /\ out' = o
    /\ UNCHANGED <<store, calls, arrived, resp, meta, clock, booksCache, guard, sweeps,
                   lists, sent, lateEstimates, recommendationsCache, arg>>

\* estimateLoanDueDate(...) is called: it runs to its first fetch
EstimatorStarted(o) == [o EXCEPT !.estimator = "google", !.http = {"google"}]

\* POST /loans/checkout: findUnique, then the estimate unless dueAt was sent
CheckoutFindsBook ==
    /\ out.pc = "idle" /\ arg.op = "checkout"
    /\ \/ Becomes([out EXCEPT !.op = "checkout", !.pc = "done"])
       \/ /\ arg.dueAt
          /\ Becomes([out EXCEPT !.op = "checkout", !.pc = "begin"])
       \/ /\ ~arg.dueAt
          /\ Becomes(EstimatorStarted([out EXCEPT !.op = "checkout", !.pc = "estimate"]))

\* a faulty checkout for comparison: the estimate is not awaited
CheckoutProceedsAtOnce == TRUE

\* await estimateLoanDueDate(...)
CheckoutProceeds == out.estimator = "settled"

CheckoutEstimateReturned ==
    /\ out.op = "checkout" /\ out.pc = "estimate"
    /\ CheckoutProceeds
    /\ Becomes([out EXCEPT !.pc = "begin"])

\* POST /borrow-requests/:requestId/approve: findUnique, then Promise.race
ApproveFindsRequest ==
    /\ out.pc = "idle" /\ arg.op = "approve"
    /\ \/ Becomes([out EXCEPT !.op = "approve", !.pc = "done"])
       \/ Becomes(EstimatorStarted([out EXCEPT !.op = "approve", !.pc = "race"]))

\* the estimator settles first
ApproveEstimateWins ==
    /\ out.op = "approve" /\ out.pc = "race"
    /\ out.estimator = "settled"
    /\ Becomes([out EXCEPT !.pc = "begin"])

\* setTimeout(..., dueEstimateWaitMs) resolves the race; nothing cancels the
\* estimator
ApproveTimerFires ==
    /\ out.op = "approve" /\ out.pc = "race"
    /\ out.estimator # "settled"
    /\ Becomes([out EXCEPT !.pc = "begin", !.timedOut = TRUE])

\* findGooglePageCount's fetch is over: a usable page count ends the estimate,
\* anything else makes the estimator call findOpenLibraryPageCount
GoogleResponds(usable) ==
    /\ out.estimator = "google" /\ "google" \in out.http
    /\ Becomes(IF usable
               THEN [out EXCEPT !.estimator = "settled", !.http = {}]
               ELSE [out EXCEPT !.estimator = "openlibrary", !.http = {"openlibrary"}])

OpenLibraryResponds ==
    /\ out.estimator = "openlibrary" /\ "openlibrary" \in out.http
    /\ Becomes([out EXCEPT !.estimator = "settled", !.http = {}])

\* prisma.$transaction(async (tx) => ...) of checkout and approve
TransactionBegins ==
    /\ out.pc = "begin"
    /\ Becomes([out EXCEPT !.pc = "tx", !.tx = TRUE, !.stmt = 1])

TransactionStatement ==
    /\ out.pc = "tx" /\ out.stmt <= Statements(out.op)
    /\ Becomes([out EXCEPT !.stmt = @ + 1])

\* throw new HttpError(409, ...) after a conditional update matched no row
TransactionRollsBack ==
    /\ out.pc = "tx" /\ out.stmt \in 2..(Conditional(out.op) + 1)
    /\ Becomes([out EXCEPT !.pc = "done", !.tx = FALSE])

TransactionCommits ==
    /\ out.pc = "tx" /\ out.stmt = Statements(out.op) + 1
    /\ Becomes([out EXCEPT !.pc = "done", !.tx = FALSE])

\* enrichMissingCoreMetadata and enrichLibraryMetadata: findMany
SweepSelects ==
    /\ out.pc = "idle" /\ arg.op \in {"enrich-core", "enrich-library"}
    /\ Becomes([out EXCEPT !.op = arg.op, !.pc = "row", !.rows = arg.rows])

\* the next row: skipped, or findBestCandidateForBook makes its first call
SweepNextRow ==
    /\ out.op \in {"enrich-core", "enrich-library"} /\ out.pc = "row"
    /\ \/ /\ out.rows = 0
          /\ Becomes([out EXCEPT !.pc = "done"])
       \/ /\ out.rows > 0
          /\ Becomes([out EXCEPT !.rows = @ - 1])
       \/ /\ out.rows > 0
          /\ Becomes([out EXCEPT !.pc = "lookup", !.http = {"search"}, !.made = 1])

\* a provider answers: another call of the lookup, or the lookup is over and
\* the row is skipped or its update is issued
SweepCallReturns ==
    /\ out.op \in {"enrich-core", "enrich-library"} /\ out.pc = "lookup"
    /\ \/ /\ out.made < LookupCalls
          /\ Becomes([out EXCEPT !.made = @ + 1])
       \/ Becomes([out EXCEPT !.pc = "row", !.http = {}, !.made = 0, !.rows = @ - 1])
       \/ Becomes([out EXCEPT !.pc = "write", !.http = {}, !.made = 0, !.tx = TRUE])

\* prisma.book.update resolves or rejects; the catch counts a failure
SweepWriteReturns ==
    /\ out.op \in {"enrich-core", "enrich-library"} /\ out.pc = "write"
    /\ Becomes([out EXCEPT !.pc = "row", !.tx = FALSE, !.rows = @ - 1])

\* POST /books/import/external: searchExternalBooks
ImportSearches ==
    /\ out.pc = "idle" /\ arg.op = "import"
    /\ Becomes([out EXCEPT !.op = "import", !.pc = "lookup", !.http = {"search"}, !.made = 1])

\* a provider answers: the other provider is asked, or persistExternalBooks
\* starts with the candidates found
ImportCallReturns ==
    /\ out.op = "import" /\ out.pc = "lookup"
    /\ \/ /\ out.made < 2
          /\ Becomes([out EXCEPT !.made = @ + 1])
       \/ Becomes([out EXCEPT !.pc = "row", !.http = {}, !.made = 0, !.rows = arg.rows])

\* persistExternalBooks: one store call of the loop is issued, and returns
ImportStoreCall ==
    /\ out.op = "import" /\ out.pc = "row"
    /\ IF out.rows = 0 THEN Becomes([out EXCEPT !.pc = "done"])
       ELSE Becomes([out EXCEPT !.pc = "write", !.tx = TRUE])

ImportStoreCallReturns ==
    /\ out.op = "import" /\ out.pc = "write"
    /\ Becomes([out EXCEPT !.pc = "row", !.tx = FALSE, !.rows = @ - 1])

\* ---- lib/external-books.ts: the rows enrichLibraryMetadata selects ----
\* author.toLowerCase(), as the store's case-insensitive equals compares
LowerCased(author) ==
    CASE author = "Unknown Author" -> "unknown author"
      [] author = "Unknown" -> "unknown"
      [] author = "N/A" -> "n/a"
      [] author = "Jane Roe" -> "jane roe"
      [] OTHER -> author

\* { author: { equals: value, mode: "insensitive" } }
EqualsInsensitive(author, value) == LowerCased(author) = LowerCased(value)

\* where: { OR: [...] } of the onlyMissing sweep
LibraryWhere(row) ==
    \/ row.coverUrl = NullText
    \/ row.description = NullText
    \/ row.genre = NullText
    \/ row.publishedYear = NullNumber
    \/ row.isbn = NullText
    \/ row.averageRating = NullNumber
    \/ row.ratingsCount = NullNumber
    \/ EqualsInsensitive(row.author, "Unknown Author")
    \/ EqualsInsensitive(row.author, "Unknown")

needsMetadataEnrichment(row) ==
    \/ ~HasText(row.coverUrl)
    \/ ~HasText(row.description)
    \/ ~HasText(row.genre)
    \/ ~HasNumber(row.publishedYear)
    \/ ~HasText(row.isbn)
    \/ row.averageRating = NullNumber
    \/ row.ratingsCount = NullNumber
    \/ isUnknownAuthor(row.author)

\* orderBy: [{ updatedAt: "asc" }] over the ids in ids
RECURSIVE OldestFirst(_, _)
OldestFirst(rows, ids) ==
    IF ids = {} THEN << >>
    ELSE LET oldest == CHOOSE i \in ids : \A j \in ids : rows[i].updatedAt <= rows[j].updatedAt
         IN <<oldest>> \o OldestFirst(rows, ids \ {oldest})

\* findMany({ where, orderBy, take: limit })
LibraryFindMany(rows, onlyMissing, limit) ==
    LET matching == {i \in DOMAIN rows : ~onlyMissing \/ LibraryWhere(rows[i])}
        ordered == OldestFirst(rows, matching)
    IN SubSeq(ordered, 1, Min(limit, Len(ordered)))

SelectIdle == [done |-> FALSE, books |-> << >>, enriched |-> {}]

\* enrichLibraryMetadata up to its loop: the rows found, and those of them the
\* loop does not skip
LibrarySelect ==
    /\ ~out.done
    /\ LET books == LibraryFindMany(arg.rows, arg.onlyMissing, arg.limit)
       IN out' = [done |-> TRUE, books |-> books,
                  enriched |-> {i \in Range(books) :
                                  ~arg.onlyMissing \/ needsMetadataEnrichment(arg.rows[i])}]
    /\ UNCHANGED <<store, calls, arrived, resp, meta, clock, booksCache, guard, sweeps,
                   lists, sent, lateEstimates, recommendationsCache, arg>>

\* ---- GET /books with its query parameters, cache key and degraded path ----
\* The router state of this part is kept in one record: rows the book table,
\* booksCache the map from cache key to entry, lastBooksPayload, calls the
\* listing calls waiting for findMany, sent the last response.
NoFilter == ""
NoCursor == 0
NoLastPayload == [data |-> << >>, hasNextPage |-> FALSE, nextCursor |-> NoCursor, none |-> TRUE]
NothingSent == [status |-> 0]

\* { genre: { contains: part, mode: "insensitive" } }, on one-word genres
ContainsInsensitive(value, part) == Lower(value) = Lower(part)

\* where: { AND: [...] } for the filters in use
ListWhere(query, row) ==
    query.genre = NoFilter \/ ContainsInsensitive(row.genre, query.genre)

\* orderBy available desc, createdAt desc, id desc: ids grow with createdAt
RECURSIVE ListOrder(_, _)
ListOrder(rows, ids) ==
    IF ids = {} THEN << >>
    ELSE LET first == CHOOSE i \in ids :
                         \A j \in ids :
                             \/ rows[i].available /\ ~rows[j].available
                             \/ rows[i].available = rows[j].available /\ i >= j
         IN <<first>> \o ListOrder(rows, ids \ {first})

\* cursor: { id }, skip: 1: what follows the cursor row
AfterCursor(ordered, cursor) ==
    IF cursor = NoCursor THEN ordered
    ELSE IF \E k \in DOMAIN ordered : ordered[k] = cursor
         THEN SubSeq(ordered, (CHOOSE k \in DOMAIN ordered : ordered[k] = cursor) + 1,
                     Len(ordered))
         ELSE << >>

\* findMany({ where, orderBy, take: limit + 1, cursor }), then the payload
ListPayload(rows, query) ==
    LET found == AfterCursor(ListOrder(rows, {i \in DOMAIN rows : ListWhere(query, rows[i])}),
                             query.cursor)
        books == SubSeq(found, 1, Min(query.limit + 1, Len(found)))
        hasNextPage == Len(books) > query.limit
        data == IF hasNextPage THEN SubSeq(books, 1, query.limit) ELSE books
    IN [data |-> [k \in DOMAIN data |-> [id |-> data[k], genre |-> rows[data[k]].genre,
                                        available |-> rows[data[k]].available]],
        hasNextPage |-> hasNextPage,
        nextCursor |-> IF hasNextPage THEN data[Len(data)] ELSE NoCursor,
        none |-> FALSE]

ShelfIdle ==
    [rows |-> <<[genre |-> "Fantasy", available |-> TRUE],
                [genre |-> "Romance", available |-> TRUE],
                [genre |-> "Fantasy", available |-> TRUE]>>,
     booksCache |-> << >>, lastBooksPayload |-> NoLastPayload, calls |-> << >>,
     sent |-> NothingSent]

ShelfStep(o) ==
    /\ out' = o
    /\ Silent
    /\ UNCHANGED <<store, calls, meta, booksCache, lists, lateEstimates,
                   recommendationsCache, arg>>

\* the handler up to await runPrimaryQuery(): a cache hit answers at once
ShelfListStart(query, allowCache) ==
    /\ arrived < NLists
    /\ arrived' = arrived + 1
    /\ IF /\ allowCache
          /\ query \in DOMAIN out.booksCache
          /\ out.booksCache[query].expiresAt > clock
       THEN ShelfStep([out EXCEPT !.sent = [status |-> 200, query |-> query, path |-> "cache",
                                             payload |-> out.booksCache[query].payload]])
       ELSE ShelfStep([out EXCEPT !.calls = Append(@, [query |-> query,
                                                        allowCache |-> allowCache]),
                                  !.sent = NothingSent])
    /\ UNCHANGED <<clock, guard, sweeps>>

\* else if (lastBooksPayload)
Remembered(last) == ~last.none

\* the query succeeds, also as the legacy query after a missing-column error
ShelfListFound(i) ==
    /\ i \in 1..Len(out.calls)
    /\ LET c == out.calls[i]
           payload == ListPayload(out.rows, c.query)
       IN ShelfStep([out EXCEPT
              !.calls = RemoveAt(@, i),
              !.lastBooksPayload = payload,
              !.booksCache = IF c.allowCache
                             THEN [k \in DOMAIN @ \cup {c.query} |->
                                     IF k = c.query
                                     THEN [expiresAt |-> clock + BOOKS_CACHE_TTL_MS,
                                           payload |-> payload]
                                     ELSE @[k]]
                             ELSE @,
              !.sent = [status |-> 200, query |-> c.query, path |-> "query",
                        payload |-> payload]])
    /\ maybeTriggerAutoCoreMetadataEnrichment
    /\ UNCHANGED <<arrived, clock>>

\* the query fails with another error: the remembered payload, or the curated
\* list cut to limit
ShelfListFailed(i) ==
    /\ i \in 1..Len(out.calls)
    /\ LET c == out.calls[i] IN
       IF Remembered(out.lastBooksPayload)
       THEN ShelfStep([out EXCEPT !.calls = RemoveAt(@, i),
                                  !.sent = [status |-> 200, query |-> c.query,
                                            path |-> "remembered",
                                            payload |-> out.lastBooksPayload]])
       ELSE ShelfStep([out EXCEPT !.calls = RemoveAt(@, i),
                                  !.sent = [status |-> 200, query |-> c.query,
                                            path |-> "curated",
                                            payload |-> NoLastPayload]])
    /\ UNCHANGED <<arrived, clock, guard, sweeps>>

\* a catalog write of the router: invalidateBooksCache()
ShelfInvalidate ==
    /\ out.booksCache # << >> \/ ~out.lastBooksPayload.none
    /\ ShelfStep([out EXCEPT !.booksCache = << >>, !.lastBooksPayload = NoLastPayload])
    /\ UNCHANGED <<arrived, clock, guard, sweeps>>

\* ---- inputs ----
DueInputs == {NoDate, "manual"}
Estimates == {"estimate", "fallback"}
RequestIds == 1..(Len(requests) + 1)
Slots == 1..NCalls
LoanIds == 1..(Len(loans) + 1)
DueOverrides == {"override"}
Isbns == {"isbn1"}
CreatedIds == (MissingBook + 1)..(MissingBook + NCalls)
EstimateInputs == {[title |-> <<"Dune">>, author |-> <<"Herbert">>]}
ItemTitles == {<<"Dune">>, <<"Dune", "-", "Messiah">>, <<"Emma">>}
ItemAuthors == {<<"Herbert">>, <<"Austen">>}
ItemPageCounts == {0, 29, 30, 1000}
ItemCategories == {<< >>, <<"Computer", "Science">>}
Categories == {<< >>, <<"Young", "Adult", "-", "Fantasy">>, <<"Children", "&", "Science">>,
               <<"Computer", "Science">>, <<"Classic">>, <<"Cooking">>}
Items == [title : ItemTitles, author : ItemAuthors, pageCount : ItemPageCounts,
          category : ItemCategories]
ItemLists == UNION {[1..n -> Items] : n \in 0..MaxItems}
Outcomes == [kind : FetchKinds \ {"response"}, ok : {FALSE}, items : {<< >>}]
            \cup [kind : {"response"}, ok : {FALSE}, items : {<< >>}]
            \cup [kind : {"response"}, ok : {TRUE}, items : ItemLists]
\* the outcomes of the provider call in flight, if it is the one of this step
OutcomesOf(step) == IF out.step = step THEN Outcomes ELSE {}
Viewers == Users \cup {NoUser}
ExistingBooks ==
    [author : {"Unknown Author", "Jane Roe"},
     coverUrl : {NullText, "old"}, description : {NullText},
     genre : {NullText, "", "old"}, isbn : {NullText},
     publishedYear : {NullNumber, 1999},
     averageRating : {NullNumber, 0}, ratingsCount : {NullNumber}]
CandidateBooks ==
    [author : {"", " Unknown ", "Ann Lee"},
     coverUrl : {NullText, "new"}, description : {NullText, "new"},
     genre : {NullText, "", "new"}, isbn : {NullText, "new"},
     publishedYear : {NullNumber, 0, 2005},
     averageRating : {NullNumber, 0, 42}, ratingsCount : {NullNumber, 17}]
CodeUnits == {97, 122, 65535}
Strings(n) == UNION {[1..k -> CodeUnits] : k \in 0..n}
SearchIsbns == {NullText, "9780441013593"}
SearchTitles == {<<"Dune">>, <<"dune">>}
SearchAuthors == {<<"Herbert">>, <<"herbert">>}
SearchCandidates == [isbn : SearchIsbns, title : SearchTitles, author : SearchAuthors]
SearchResults == UNION {[1..n -> SearchCandidates] : n \in 0..MaxCandidates}

\* the fields a candidate can fill: none, all, or cover and rating only
NoMetadata ==
    [coverUrl |-> NullText, description |-> NullText, genre |-> NullText,
     publishedYear |-> NullNumber, averageRating |-> NullNumber, ratingsCount |-> NullNumber]
AllMetadata ==
    [coverUrl |-> "cover", description |-> "text", genre |-> "Fiction",
     publishedYear |-> 1965, averageRating |-> 42, ratingsCount |-> 17]
SomeMetadata == [NoMetadata EXCEPT !.coverUrl = "cover", !.averageRating = 0]
WithMetadata(key, metadata) ==
    [k \in DOMAIN key \cup DOMAIN metadata |-> IF k \in DOMAIN key THEN key[k] ELSE metadata[k]]
ScoredBooks ==
    {WithMetadata(key, metadata) :
        key \in [title : {"Dune"}, author : {"Frank Herbert", "Unknown Author"},
                 isbn : {NullText, "9780441013593"}],
        metadata \in {NoMetadata, AllMetadata}}
ScoredCandidates ==
    {WithMetadata(key, metadata) :
        key \in [title : {"Dune", "DUNE", "Dune - Messiah", "Emma"},
                 author : {"Frank Herbert", "FRANK HERBERT", "Herbert", "Jane Austen"},
                 isbn : {NullText, "9780441013593", "9780141439587"}],
        metadata \in {NoMetadata, SomeMetadata, AllMetadata}}

NoMatch == [title |-> "Emma", author |-> "Jane Austen", isbn |-> NullText]
FoundCandidates ==
    {WithMetadata([title |-> "Dune", author |-> "Frank Herbert", isbn |-> NullText], NoMetadata),
     WithMetadata([title |-> "DUNE", author |-> "FRANK HERBERT", isbn |-> NullText], NoMetadata),
     WithMetadata([title |-> "Emma", author |-> "Frank Herbert", isbn |-> NullText], NoMetadata),
     WithMetadata(NoMatch, SomeMetadata),
     WithMetadata(NoMatch, [NoMetadata EXCEPT !.coverUrl = "cover", !.description = "text",
                                              !.genre = "Fiction"]),
     WithMetadata(NoMatch, [NoMetadata EXCEPT !.publishedYear = 1965, !.averageRating = 42,
                                              !.ratingsCount = 17]),
     WithMetadata(NoMatch, [AllMetadata EXCEPT !.averageRating = NullNumber,
                                               !.ratingsCount = NullNumber])}
FoundLists == UNION {[1..n -> FoundCandidates] : n \in 0..MaxFound}
FindBooks ==
    {WithMetadata([title |-> "Dune", author |-> "Frank Herbert", isbn |-> isbn], NoMetadata) :
        isbn \in {NullText, "", "9780441013593"}}

Genres == {"Fantasy", "Romance"}
Authors == {"Frank Herbert", "Jane Austen"}
HistoryLoans == [genre : Genres, author : Authors]
Histories == UNION {[1..n -> HistoryLoans] : n \in 0..MaxHistory}
RankedBooks ==
    [genre : Genres \cup {NoGenre}, author : {"Jane Austen", "Ann Lee"},
     averageRating : {NullNumber, 42},
     ratingsCount : {NullNumber, 17}]
RankedLists == [1..2 -> RankedBooks]
Limits == 1..2

Operations ==
    [op : {"checkout", "approve", "enrich-core", "enrich-library", "import"},
     dueAt : BOOLEAN, rows : 0..MaxRows]

CompleteRow ==
    [author |-> "Jane Roe", coverUrl |-> "cover", description |-> "text", genre |-> "Fiction",
     publishedYear |-> 1965, isbn |-> "9780441013593", averageRating |-> 42,
     ratingsCount |-> 17, updatedAt |-> 1]
CatalogRows(n) ==
    {[CompleteRow EXCEPT !.author = author, !.coverUrl = coverUrl,
                         !.ratingsCount = ratingsCount, !.updatedAt = n] :
        author \in {"Jane Roe", "Unknown Author", "Unknown", "N/A"},
        coverUrl \in {NullText, "cover"},
        ratingsCount \in {NullNumber, 17}}
\* catalogs of up to MaxRows rows, updated at different times
Catalogs ==
    UNION {{rows \in [1..n -> UNION {CatalogRows(t) : t \in 1..n}] :
               \A i, j \in 1..n : i # j => rows[i].updatedAt # rows[j].updatedAt} :
           n \in 1..MaxRows}

\* genre filter, cursor and limit; a cursor is a row the filter matches
ListQueries ==
    {q \in [genre : {NoFilter, "fantasy"}, cursor : {NoCursor, 3}, limit : 1..2] :
        q.cursor # NoCursor => ListWhere(q, ShelfIdle.rows[q.cursor])}

TickSizes == {BOOKS_CACHE_TTL_MS, AUTO_CORE_ENRICH_COOLDOWN_MS}

Next ==
    \/ \E v \in Users, b \in BookIds, due \in DueInputs : CheckoutStart(v, b, due)
    \/ \E i \in Slots : CheckoutTx(i)
    \/ \E v \in Users, b \in BookIds : CheckinStart(v, b)
    \/ \E i \in Slots : CheckinTx(i)
    \/ \E v \in Users, b \in BookIds : RequestStart(v, b)
    \/ \E i \in Slots : RequestTx(i)
    \/ \E v \in Users, r \in RequestIds, est \in Estimates : ApproveStart(v, r, est)
    \/ \E i \in Slots : ApproveTx(i)
    \/ \E v \in Users, r \in RequestIds : DeclineStart(v, r)
    \/ \E i \in Slots : DeclineTx(i)

Spec == Init /\ [][Next]_vars

\* ---- specifications ----

\* Only direct checkouts arrive, in any number up to NCalls and in any interleaving.
NextCheckoutOnly ==
    \/ \E v \in Users, b \in BookIds, due \in DueInputs : CheckoutStart(v, b, due)
    \/ \E i \in Slots : CheckoutTx(i)

SpecCheckoutRace == Init /\ [][NextCheckoutOnly]_vars

\* The store as one committed checkout by the member leaves it.
InitLoaned ==
    /\ book = [b \in Books |-> [available |-> FALSE, requestPending |-> FALSE]]
    /\ loans = [l \in Books |-> [bookId |-> l, userId |-> "m1", dueAt |-> "estimate", returnedAt |-> 0]]
    /\ requests = << >>
    /\ calls = << >>
    /\ arrived = 0
    /\ resp = NoResp
    /\ InitSide

SpecLoaned == InitLoaned /\ [][Next]_vars

\* Checkouts, checkins and due-date overrides, starting with one record on loan.
NextDueDate ==
    \/ \E v \in Users, b \in BookIds, due \in DueInputs : CheckoutStart(v, b, due)
    \/ \E i \in Slots : CheckoutTx(i)
    \/ \E v \in Users, b \in BookIds : CheckinStart(v, b)
    \/ \E i \in Slots : CheckinTx(i)
    \/ \E v \in Users, l \in LoanIds, due \in DueOverrides : DueDateStart(v, l, due)
    \/ \E i \in Slots : DueDateWrite(i)

SpecDueDate == InitLoaned /\ [][NextDueDate]_vars

\* Checkouts and deletes of catalog records, starting with every record AVAILABLE.
NextDelete ==
    \/ \E v \in Users, b \in BookIds, due \in DueInputs : CheckoutStart(v, b, due)
    \/ \E i \in Slots : CheckoutTx(i)
    \/ \E v \in Users, b \in BookIds : DeleteStart(v, b)
    \/ \E i \in Slots, onDelete \in ReferentialActions : DeleteWrite(i, onDelete)

SpecDelete == Init /\ [][NextDelete]_vars

\* Listing reads with the background sweep they start, and time.
NextSweep ==
    \/ \E allowCache \in BOOLEAN : ListStart(allowCache)
    \/ \E i \in Slots : ListQuery(i)
    \/ \E i \in Slots : ListFinish(i)
    \/ \E k \in Slots : SweepRead(k)
    \/ \E k \in Slots, b \in Books : SweepWrite(k, b)
    \/ \E k \in Slots : AutoSweepDone(k)
    \/ \E k \in Slots : AutoSweepFail(k)
    \/ \E d \in TickSizes : Tick(d)

SpecSweep == Init /\ [][NextSweep]_vars

\* Listing reads with the background sweep they start, direct checkouts, and time.
NextListing ==
    \/ \E allowCache \in BOOLEAN : ListStart(allowCache)
    \/ \E i \in Slots : ListQuery(i)
    \/ \E i \in Slots : ListFinish(i)
    \/ \E k \in Slots : SweepRead(k)
    \/ \E k \in Slots, b \in Books : SweepWrite(k, b)
    \/ \E k \in Slots : AutoSweepDone(k)
    \/ \E k \in Slots : AutoSweepFail(k)
    \/ \E d \in TickSizes : Tick(d)
    \/ \E v \in Members, b \in Books : CheckoutStart(v, b, NoDate)
    \/ \E i \in Slots : CheckoutTx(i)

SpecListing == Init /\ [][NextListing]_vars

\* The enrichment endpoints, the import of a matching candidate and PATCH by an
\* administrator, in any interleaving.
NextEnrich ==
    \/ \E v \in Users, kind \in ManualKinds : EnrichStart(v, kind)
    \/ \E k \in Slots : SweepRead(k)
    \/ \E k \in Slots, b \in Books : SweepWrite(k, b)
    \/ \E k \in Slots : EnrichDone(k)
    \/ \E v \in Users : ImportStart(v, NoIsbn)
    \/ \E k \in Slots, b \in Books : ImportRead(k, b)
    \/ \E k \in Slots, b \in Books : ImportWrite(k, b)
    \/ \E k \in Slots : ImportDone(k)
    \/ \E v \in Users, b \in BookIds : PatchBook(v, b)

SpecEnrich == Init /\ [][NextEnrich]_vars

\* Imports of candidates that carry the same ISBN, in any interleaving.
NextImport ==
    \/ \E v \in Users, x \in Isbns : ImportStart(v, x)
    \/ \E k \in Slots, b \in BookIds \cup CreatedIds : ImportRead(k, b)
    \/ \E k \in Slots : ImportReadNone(k)
    \/ \E k \in Slots, b \in BookIds \cup CreatedIds : ImportWrite(k, b)
    \/ \E k \in Slots : ImportCreate(k)
    \/ \E k \in Slots : ImportRefetch(k)
    \/ \E k \in Slots : ImportDone(k)

SpecImport == Init /\ [][NextImport]_vars

\* Requests reviewed and acknowledged, next to a declined and unacknowledged
\* request of another member.
OtherMember == "m2"
InitSeen ==
    /\ book = [b \in Books |-> [available |-> TRUE, requestPending |-> FALSE]]
    /\ loans = << >>
    /\ requests = <<[userId |-> OtherMember, bookId |-> 1, status |-> "DECLINED",
                     reviewedById |-> "a1", memberSeen |-> FALSE]>>
    /\ calls = << >>
    /\ arrived = 0
    /\ resp = NoResp
    /\ InitSide

NextSeen ==
    \/ \E v \in Users, b \in BookIds : RequestStart(v, b)
    \/ \E i \in Slots : RequestTx(i)
    \/ \E v \in Users, r \in RequestIds, est \in Estimates : ApproveStart(v, r, est)
    \/ \E i \in Slots : ApproveTx(i)
    \/ \E v \in Users, r \in RequestIds : DeclineStart(v, r)
    \/ \E i \in Slots : DeclineTx(i)
    \/ \E v \in Users, b \in BookIds : CheckinStart(v, b)
    \/ \E i \in Slots : CheckinTx(i)
    \/ \E v \in Users : MarkSeen(v)

SpecSeen == InitSeen /\ [][NextSeen]_vars

\* Both sweeps over a table of several rows, with records that fail.
InitShelf ==
    /\ book = [b \in BookIds |-> [available |-> TRUE, requestPending |-> FALSE]]
    /\ loans = << >>
    /\ requests = << >>
    /\ calls = << >>
    /\ arrived = 0
    /\ resp = NoResp
    /\ meta = [b \in BookIds |-> [genre |-> Missing, aiMetadata |-> FALSE, isbn |-> NoIsbn]]
    /\ clock = StartTime
    /\ booksCache = NoEntry
    /\ autoCoreEnrichmentInProgress = FALSE
    /\ autoCoreEnrichmentLastRunAt = 0
    /\ completedAt = Never
    /\ sweeps = << >>
    /\ lists = << >>
    /\ sent = NoSent
    /\ lateEstimates = 0
    /\ recommendationsCache = {}
    /\ arg = NoArg
    /\ out = NoResult

NextFailing ==
    \/ \E v \in Users, kind \in ManualKinds : Len(sweeps) < MaxRuns /\ EnrichStart(v, kind)
    \/ \E k \in Slots : SweepRead(k)
    \/ \E k \in Slots, b \in BookIds : SweepWrite(k, b)
    \/ \E k \in Slots, b \in BookIds : SweepRecordFails(k, b)
    \/ \E k \in Slots : EnrichDone(k)

SpecFailing == InitShelf /\ [][NextFailing]_vars

\* Recommendations while books are borrowed, requested and returned.
NextRecommend ==
    \/ \E v \in Viewers : RecommendStart(v)
    \/ \E i \in Slots : RecommendQuery(i)
    \/ \E v \in Users, b \in BookIds, due \in DueOverrides : CheckoutStart(v, b, due)
    \/ \E i \in Slots : CheckoutTx(i)
    \/ \E v \in Users, b \in BookIds : CheckinStart(v, b)
    \/ \E i \in Slots : CheckinTx(i)
    \/ \E v \in Users, b \in BookIds : RequestStart(v, b)
    \/ \E i \in Slots : RequestTx(i)
    \/ \E d \in TickSizes : Tick(d)

SpecRecommend == Init /\ [][NextRecommend]_vars

\* Approvals whose due date comes out of the race of estimator and timer.
NextApprove ==
    \/ \E v \in Users, b \in BookIds : RequestStart(v, b)
    \/ \E i \in Slots : RequestTx(i)
    \/ \E v \in Users, r \in RequestIds : ApproveRaceStart(v, r)
    \/ \E i \in Slots, est \in Estimates : RaceEstimator(i, est)
    \/ \E i \in Slots : RaceTimer(i)
    \/ EstimatorLate
    \/ \E i \in Slots : ApproveTx(i)
    \/ \E v \in Users, b \in BookIds : CheckinStart(v, b)
    \/ \E i \in Slots : CheckinTx(i)

SpecApprove == Init /\ [][NextApprove]_vars

\* estimateLoanDueDate under every outcome of the two provider calls.
InitEstimate ==
    /\ InitStore
    /\ InitRouter
    /\ arg = NoArg
    /\ out = EstimateIdle

NextEstimate ==
    \/ \E input \in EstimateInputs : EstimateStart(input)
    \/ \E o \in OutcomesOf("google") : EstimateGoogle(o)
    \/ \E o \in OutcomesOf("openlibrary") : EstimateOpenLibrary(o)

SpecEstimate == InitEstimate /\ [][NextEstimate]_vars

\* enrichExistingBook applied to a row, and again to the row it returned.
InitPatch ==
    /\ InitStore
    /\ InitRouter
    /\ arg \in [existing : ExistingBooks, candidate : CandidateBooks]
    /\ out = PatchIdle

NextPatch == ApplyPatch

SpecPatch == InitPatch /\ [][NextPatch]_vars

\* The synthetic rating and count of every title and author.
InitSynth ==
    /\ InitStore
    /\ InitRouter
    /\ arg \in [title : Strings(MaxTitleLen), author : Strings(MaxAuthorLen)]
    /\ out = SynthIdle

NextSynth == Synthesize

SpecSynth == InitSynth /\ [][NextSynth]_vars

\* The day count for every usable page count and every category.
InitDays ==
    /\ InitStore
    /\ InitRouter
    /\ arg \in [pageCount : 30..MaxPageCount, category : Categories]
    /\ out = EstimateIdle

NextDays == EstimateDays

SpecDays == InitDays /\ [][NextDays]_vars

\* dedupeCandidates over every list of search results.
InitDedupe ==
    /\ InitStore
    /\ InitRouter
    /\ arg \in SearchResults
    /\ out = DedupeIdle

NextDedupe == DedupeStep

SpecDedupe == InitDedupe /\ [][NextDedupe]_vars

\* candidateScore of every two candidates for every book.
InitScore ==
    /\ InitStore
    /\ InitRouter
    /\ arg \in [book : ScoredBooks, first : ScoredCandidates, second : ScoredCandidates]
    /\ out = ScoreIdle

NextScore == ScoreBoth

SpecScore == InitScore /\ [][NextScore]_vars

\* findBestCandidateForBook for a row with and without ISBN, whatever the
\* provider returns to each query.
InitFind ==
    /\ InitStore
    /\ InitRouter
    /\ arg \in FindBooks
    /\ out = FindIdle

NextFind == \E candidates \in FoundLists : FindAttempt(candidates)

SpecFind == InitFind /\ [][NextFind]_vars

\* The order of two available candidates, for every history.
InitRank ==
    /\ InitStore
    /\ InitRouter
    /\ arg \in [history : Histories, candidates : RankedLists, limit : Limits]
    /\ out = RankIdle

NextRank == Rank

SpecRank == InitRank /\ [][NextRank]_vars

\* One operation that calls a provider and writes to the store, await by await.
InitOverlap ==
    /\ InitStore
    /\ InitRouter
    /\ arg \in Operations
    /\ out = OverlapIdle

NextOverlap ==
    \/ CheckoutFindsBook
    \/ CheckoutEstimateReturned
    \/ ApproveFindsRequest
    \/ ApproveEstimateWins
    \/ ApproveTimerFires
    \/ \E usable \in BOOLEAN : GoogleResponds(usable)
    \/ OpenLibraryResponds
    \/ TransactionBegins
    \/ TransactionStatement
    \/ TransactionRollsBack
    \/ TransactionCommits
    \/ SweepSelects
    \/ SweepNextRow
    \/ SweepCallReturns
    \/ SweepWriteReturns
    \/ ImportSearches
    \/ ImportCallReturns
    \/ ImportStoreCall
    \/ ImportStoreCallReturns

SpecOverlap == InitOverlap /\ [][NextOverlap]_vars

\* The selection of enrichLibraryMetadata over every small catalog.
InitSelect ==
    /\ InitStore
    /\ InitRouter
    /\ arg \in [rows : Catalogs, onlyMissing : BOOLEAN, limit : 1..MaxRows]
    /\ out = SelectIdle

NextSelect == LibrarySelect

SpecSelect == InitSelect /\ [][NextSelect]_vars

\* Listings with different query parameters, failing queries and catalog writes.
InitPages ==
    /\ InitStore
    /\ InitRouter
    /\ arg = NoArg
    /\ out = ShelfIdle

NextPages ==
    \/ \E query \in ListQueries, allowCache \in BOOLEAN : ShelfListStart(query, allowCache)
    \/ \E i \in Slots : ShelfListFound(i)
    \/ \E i \in Slots : ShelfListFailed(i)
    \/ ShelfInvalidate
    \/ \E d \in TickSizes : Tick(d)

SpecPages == InitPages /\ [][NextPages]_vars

\* The same, with every step of a started sweep taken at some time: the store
\* answers or rejects its findMany, its writes return, its promise settles.
SweepSettles ==
    /\ WF_vars(\E k \in Slots : SweepRead(k) \/ AutoSweepFail(k))
    /\ WF_vars(\E k \in Slots, b \in Books : SweepWrite(k, b))
    /\ WF_vars(\E k \in Slots : AutoSweepDone(k))

SpecSweepSettles == Init /\ [][NextSweep]_vars /\ SweepSettles

\* ---- steps seen from outside ----
LoansOf(b) == {l \in 1..Len(loans) : loans[l].bookId = b}

\* this step commits or rolls back the transaction of an `op` call and answers it
TxStep(op) == Len(calls') < Len(calls) /\ resp'.op = op
\* this step answers an `op` call, from its transaction or before it
Answers(op) == (Len(calls') < Len(calls) \/ arrived' # arrived) /\ resp'.op = op

Available == [available |-> TRUE, requestPending |-> FALSE]
RequestPending == [available |-> TRUE, requestPending |-> TRUE]
OnLoan == [available |-> FALSE, requestPending |-> FALSE]

\* ---- claims ----

\* C1: when only direct checkouts run against an AVAILABLE record, concurrently or
\* not, the first attempt to commit succeeds (201) and creates the Loan, every other
\* attempt gets 409 and changes nothing, and after every attempt the record is not
\* available and has exactly one active Loan.
C1_OneCheckoutWins ==
    [][TxStep("checkout") =>
        LET b == resp'.bookId IN
        /\ IF LoansOf(b) = {}
           THEN resp'.status = 201 /\ Len(loans') = Len(loans) + 1
           ELSE resp'.status = 409 /\ UNCHANGED store
        /\ ~book'[b].available
        /\ Cardinality(ActiveLoansIn(loans', b)) = 1]_vars

\* a third attempt is still in flight when the second one loses the race
C1_Witness ==
    /\ resp.op = "checkout" /\ resp.status = 409
    /\ Cardinality(ActiveLoans(resp.bookId)) = 1
    /\ \E i \in 1..Len(calls) : calls[i].op = "checkout" /\ calls[i].bookId = resp.bookId

\* C2: at most one Loan per catalog record has returnedAt = null.
C2_AtMostOneActiveLoan == \A b \in Books : Cardinality(ActiveLoans(b)) <= 1

\* C3: a record referenced by an active Loan has available = false.
C3_ActiveLoanMeansUnavailable == \A b \in Books : ActiveLoans(b) # {} => ~book[b].available

\* C4: every record is AVAILABLE, REQUEST_PENDING or ON_LOAN; available = false with
\* requestPending = true is never reached.
C4_ThreeLendingStates == \A b \in Books : book[b] \in {Available, RequestPending, OnLoan}

\* C5: a direct checkout committed while the record is REQUEST_PENDING gets 409 and
\* changes neither the record, the loans nor the requests.
C5_CheckoutRefusedWhilePending ==
    [][(TxStep("checkout") /\ book[resp'.bookId] = RequestPending) =>
        (resp'.status = 409 /\ UNCHANGED store)]_vars

\* C6: at most one BorrowRequest per catalog record has status PENDING.
C6_AtMostOnePendingRequest == \A b \in Books : Cardinality(PendingRequests(b)) <= 1

\* a second request for a record was refused while the first one is still PENDING
C6_Witness ==
    /\ resp.op = "request" /\ resp.status = 409 /\ resp.bookId \in Books
    /\ Cardinality(PendingRequests(resp.bookId)) = 1

\* C7: a borrow-request create succeeds (201) exactly when the record has
\* available = true and requestPending = false at commit; on success the same step
\* sets requestPending and appends one PENDING request of the caller and touches
\* nothing else; otherwise it answers 409 and changes nothing; while a request for
\* the record is PENDING every further create loses.
C7_RequestClaim ==
    [][TxStep("request") =>
        LET b == resp'.bookId
            ok == b \in Books /\ book[b] = Available IN
        /\ (resp'.status = 201) <=> ok
        /\ resp'.status \in {201, 409}
        /\ resp'.status = 201 =>
             /\ book' = [book EXCEPT ![b] = RequestPending]
             /\ Len(requests') = Len(requests) + 1
             /\ SubSeq(requests', 1, Len(requests)) = requests
             /\ LET q == requests'[Len(requests')] IN
                  q.userId = resp'.viewer /\ q.bookId = b /\ q.status = "PENDING"
             /\ PendingRequestsIn(requests', b) = {Len(requests')}
             /\ loans' = loans
        /\ resp'.status = 409 => UNCHANGED store
        /\ (b \in Books /\ PendingRequests(b) # {}) => resp'.status = 409]_vars

\* one create lost the race for an AVAILABLE record while another is still in flight
C7_Witness ==
    /\ resp.op = "request" /\ resp.status = 409 /\ resp.bookId \in Books
    /\ book[resp.bookId] = RequestPending /\ Len(requests) = 1
    /\ \E i \in 1..Len(calls) : calls[i].op = "request" /\ calls[i].bookId = resp.bookId

\* C8: a successful approve, in one step, takes the request from PENDING to APPROVED,
\* puts the record ON_LOAN and appends exactly one Loan, active, for the record and
\* for the requesting user.
C8_ApproveCreatesLoan ==
    [][(TxStep("approve") /\ resp'.status = 200) =>
        LET r == resp'.requestId
            b == requests[r].bookId IN
        /\ requests[r].status = "PENDING" /\ requests'[r].status = "APPROVED"
        /\ book[b] = RequestPending /\ book'[b] = OnLoan
        /\ Len(loans') = Len(loans) + 1
        /\ SubSeq(loans', 1, Len(loans)) = loans
        /\ LET l == loans'[Len(loans')] IN
             l.bookId = b /\ l.userId = requests[r].userId /\ l.returnedAt = 0]_vars

\* an administrator has approved a member's request
C8_Witness ==
    /\ resp.op = "approve" /\ resp.status = 200 /\ resp.viewer \in Admins
    /\ requests[resp.requestId].status = "APPROVED"
    /\ requests[resp.requestId].userId \in Members

\* C9: after a successful decline the request is DECLINED, no Loan was created and
\* the record is AVAILABLE.
C9_DeclineReleasesRecord ==
    [][(TxStep("decline") /\ resp'.status = 200) =>
        LET r == resp'.requestId IN
        /\ requests'[r].status = "DECLINED"
        /\ loans' = loans
        /\ book'[requests[r].bookId] = Available]_vars

\* C10: a request's status only changes PENDING -> APPROVED or PENDING -> DECLINED;
\* an approve or decline that succeeds is such a change of its own request, so at
\* most one succeeds per request; every other approve or decline of an existing
\* request, sequential or concurrent, answers 409 and changes nothing.
C10_DecidedOnce ==
    [][/\ Len(requests') >= Len(requests)
       /\ \A r \in 1..Len(requests) :
            requests'[r].status # requests[r].status =>
              /\ requests[r].status = "PENDING"
              /\ requests'[r].status \in {"APPROVED", "DECLINED"}
              /\ (Answers("approve") \/ Answers("decline"))
              /\ resp'.requestId = r /\ resp'.status = 200
       /\ \A op \in {"approve", "decline"} :
            (Answers(op) /\ resp'.requestId \in 1..Len(requests)) =>
              LET r == resp'.requestId IN
              IF resp'.status = 200
              THEN /\ requests[r].status = "PENDING"
                   /\ requests'[r].status = (IF op = "approve" THEN "APPROVED" ELSE "DECLINED")
              ELSE resp'.status = 409 /\ UNCHANGED store]_vars

\* a decline has just succeeded while an approve of the same request, which read
\* it as PENDING, is still in flight and can only lose
C10_Witness ==
    /\ resp.op = "decline" /\ resp.status = 200
    /\ requests[resp.requestId].status = "DECLINED"
    /\ \E i \in 1..Len(calls) : calls[i].op = "approve" /\ calls[i].requestId = resp.requestId

C12_CheckinForbiddenOrAtomic ==
    [][/\ (Answers("checkin") /\ arrived' # arrived /\ Role(resp'.viewer) = "MEMBER"
            /\ ActiveLoans(resp'.bookId) # {}
            /\ \A l \in ActiveLoans(resp'.bookId) : loans[l].userId # resp'.viewer) =>
              /\ resp'.status = 403
              /\ UNCHANGED store
              /\ ActiveLoansIn(loans', resp'.bookId) = ActiveLoans(resp'.bookId)
       /\ (Answers("checkin") /\ resp'.status = 200) =>
              /\ book'[resp'.bookId].available
              /\ \E l \in LoansOf(resp'.bookId) :
                    /\ Role(resp'.viewer) = "ADMIN" \/ loans[l].userId = resp'.viewer
                    /\ loans'[l].returnedAt = Now
                    /\ loans' = [loans EXCEPT ![l].returnedAt = Now]
       /\ \A l \in 1..Len(loans) :
            loans'[l].returnedAt # loans[l].returnedAt =>
              /\ Answers("checkin") /\ resp'.status = 200
              /\ book'[loans[l].bookId].available]_vars

\* a member has just been refused the checkin of a record on loan to someone else
C12_Witness ==
    /\ resp.op = "checkin" /\ resp.status = 403 /\ Role(resp.viewer) = "MEMBER"
    /\ ~book[resp.bookId].available
    /\ \E l \in ActiveLoans(resp.bookId) : loans[l].userId # resp.viewer

\* C13: a due-date override answers 409 for a Loan it reads as returned, and no step
\* changes the dueAt of a Loan whose returnedAt is set, whatever checkin runs
\* concurrently.
C13_ReturnedLoanKeepsDueAt ==
    [][/\ \A l \in 1..Len(loans) :
            loans[l].returnedAt # 0 => loans'[l].dueAt = loans[l].dueAt
       /\ (Answers("duedate") /\ resp'.status = 200) =>
            \A l \in 1..Len(loans) :
               loans'[l].dueAt # loans[l].dueAt => loans'[l].returnedAt = 0]_vars

\* C14: a delete of a record that it reads with an active Loan answers 409 and
\* deletes nothing, and no step removes a record from the book table while an
\* active Loan references it, whatever checkout runs concurrently.
C14_NoDeleteUnderActiveLoan ==
    [][/\ (Answers("delete") /\ arrived' # arrived /\ ActiveLoans(resp'.bookId) # {}) =>
            (resp'.status = 409 /\ UNCHANGED store)
       /\ \A b \in Rows : b \notin DOMAIN book' => ActiveLoans(b) = {}]_vars

\* C15: at most one enrichment sweep started by the listing handler is in flight.
C15_OneBackgroundSweep == Cardinality(AutoSweeps) <= 1

\* a listing has just been answered from the store while the sweep started a full
\* cooldown earlier is still in flight: only the in-progress flag held it back
C15_Witness ==
    /\ resp.op = "list" /\ ~sent.cached
    /\ Cardinality(AutoSweeps) = 1
    /\ autoCoreEnrichmentInProgress
    /\ clock - autoCoreEnrichmentLastRunAt >= AUTO_CORE_ENRICH_COOLDOWN_MS

\* C16: a step starts a background sweep only if none is in flight and the previous
\* one, if any, settled at least the cooldown (5 minutes) earlier.
C16_StartsOnlyAfterCooldown ==
    [][Cardinality(AutoSweeps') > Cardinality(AutoSweeps) =>
        /\ AutoSweeps = {}
        /\ resp'.op = "list"
        /\ completedAt = Never
           \/ clock - completedAt >= AUTO_CORE_ENRICH_COOLDOWN_MS]_vars

\* C17: a listing answered from the store answers 200 with the rows its query
\* returned, whether or not the same step starts a background sweep; when it does,
\* the response leaves in that step, before the sweep has read or written anything;
\* and the step in which a sweep settles, failed or not, sends no response.
C17_ResponseIgnoresSweep ==
    [][/\ resp'.op = "list" => sent'.status = 200
       /\ (resp'.op = "list" /\ ~sent'.cached) =>
            \E i \in 1..Len(lists) :
               /\ lists[i].read
               /\ lists' = RemoveAt(lists, i)
               /\ sent'.payload = lists[i].payload
       /\ Cardinality(AutoSweeps') > Cardinality(AutoSweeps) =>
            /\ resp'.op = "list" /\ ~sent'.cached
            /\ ~sweeps'[Len(sweeps')].read
            /\ UNCHANGED <<store, meta>>
       /\ Cardinality(AutoSweeps') < Cardinality(AutoSweeps) =>
            /\ resp' = NoResp /\ sent' = NoSent
            /\ lists' = lists]_vars

\* a listing has just started a sweep and been answered; an earlier sweep has
\* settled, and the rows it wrote are not the rows this listing's query had read
C17_Witness ==
    /\ resp.op = "list" /\ ~sent.cached /\ sent.status = 200
    /\ autoCoreEnrichmentLastRunAt = clock
    /\ completedAt # Never
    /\ Cardinality(AutoSweeps) = 1 /\ ~sweeps[Len(sweeps)].read
    /\ sent.payload # Listing

\* C18: a listing answered from the cache carries the rows as they are in the store:
\* no write committed since the entry's payload was read has changed them.
C18_CacheNeverStale ==
    [][(resp'.op = "list" /\ sent'.cached) => sent'.payload = Listing]_vars

\* an enrichment run (a sweep or the import) writes a row in this step
EnrichmentWrite == Len(sweeps') = Len(sweeps) /\ sweeps' # sweeps /\ meta' # meta

\* C19: whatever other writer runs in between, an enrichment write leaves every
\* column alone that is populated in the store at the moment of the write.
C19_EnrichmentFillsMissingOnly ==
    [][EnrichmentWrite =>
        \A b \in Rows : meta[b].genre # Missing => meta'[b].genre = meta[b].genre]_vars

\* C20: a write that fills a column from a candidate or from synthesis leaves the
\* row with aiMetadata = true, on the sweeps and on the import of a matching row.
C20_FilledMeansFlagged ==
    [][EnrichmentWrite =>
        \A b \in Rows :
           (meta'[b].genre = External /\ meta[b].genre # External) => meta'[b].aiMetadata]_vars

C27_ThousandPagesGive45Days ==
    (out.step = "done" /\ arg.pageCount = 1000 /\ estimatePagesPerDay(arg.category) = 35)
        => out.estimate.days = 45

\* C27 amended: 1000 pages at the default 35 pages a day give 29 days, the
\* rounding of 28.57, which lies inside [14, 45].
C27_ThousandPagesGive29Days ==
    (out.step = "done" /\ arg.pageCount = 1000 /\ estimatePagesPerDay(arg.category) = 35)
        => out.estimate.days = 29

\* the estimate for 1000 pages of a book without a category has been computed
C27_Witness ==
    /\ out.step = "done"
    /\ arg.pageCount = 1000 /\ arg.category = << >>
    /\ out.estimate.days = 29

\* twice the distance between n / d and the integer k, times d
TwiceGap(n, d, k) == IF 2 * n >= 2 * k * d THEN 2 * n - 2 * k * d ELSE 2 * k * d - 2 * n

\* k is the integer nearest to n / d, the upper one of two equally near
Nearest(n, d, k) == TwiceGap(n, d, k) <= d /\ (TwiceGap(n, d, k) = d => k * d > n)

\* the pages per day of the four buckets of categories
BucketPagesPerDay(category) ==
    LET words == {Lower(category[i]) : i \in DOMAIN category} IN
    IF words \cap {"children"} # {} \/ {"young", "adult"} \subseteq words THEN 50
    ELSE IF words \cap {"science", "engineering", "technology", "computer"} # {} THEN 25
    ELSE IF words \cap {"fantasy", "historical", "classic"} # {} THEN 30
    ELSE 35

\* C28: for every page count of at least 30 and every category the days are the
\* integer nearest to pageCount / pagesPerDay(category), brought into [14, 45]:
\* 14 if that integer is below 14, 45 if it is above 45, the integer otherwise.
C28_DaysRoundedAndClamped ==
    out.step = "done" =>
        \E k \in 0..arg.pageCount :
            /\ Nearest(arg.pageCount, BucketPagesPerDay(arg.category), k)
            /\ out.estimate.days = (IF k < 14 THEN 14 ELSE IF k > 45 THEN 45 ELSE k)
            /\ out.estimate.days \in 14..45

\* 50 pages of a book without a category: 1.43 days, rounded to 1, raised to 14
C28_Witness ==
    /\ out.step = "done"
    /\ arg.pageCount = 50 /\ arg.category = << >>
    /\ out.estimate.days = 14

\* C23: the loan an approval creates is due at the estimator's result if the
\* estimator settled before the timer fired and at the 30-day fallback otherwise;
\* once its timer has fired an approval is not waiting for the estimator any more;
\* and an estimator that settles after its race changes nothing that is stored.
C23_DueAtFromRace ==
    /\ [](\A i \in 1..Len(calls) : calls[i].timedOut => calls[i].dueAt # Racing)
    /\ [][/\ \A i \in 1..Len(calls) :
               (calls[i].op = "approve" /\ calls' = RemoveAt(calls, i)
                  /\ Len(loans') = Len(loans) + 1) =>
                 loans'[Len(loans')].dueAt =
                    (IF calls[i].timedOut THEN "fallback" ELSE calls[i].estimated)
          /\ lateEstimates' < lateEstimates => UNCHANGED <<store, calls>>]_vars

\* an approval whose timer fired first has created its loan with the fallback due
\* date while its estimator was still running
C23_Witness ==
    /\ lateEstimates > 0
    /\ resp.op = "approve" /\ resp.status = 200
    /\ loans # << >> /\ loans[Len(loans)].dueAt = "fallback"

\* the books viewer v has borrowed, returned or not
BorrowedBy(v) == {loans[l].bookId : l \in History(v)}

\* C24: every book in a response of POST /ai/recommendations is, in the store as
\* it is when the response is sent, a row that is available, not request-pending
\* and not among the books the viewer has borrowed.
C24_RecommendedAreAvailable ==
    resp.op = "recommend" =>
        \A b \in sent.payload :
            /\ b \in Rows
            /\ book[b].available
            /\ ~book[b].requestPending
            /\ b \notin BorrowedBy(resp.viewer)

\* C25: a request that goes from PENDING to APPROVED or DECLINED has its
\* acknowledgement cleared; a mark-seen call changes only requests of its caller
\* that are APPROVED or DECLINED and unacknowledged, and only by acknowledging
\* them; right after it the caller's unread count is zero.
C25_MarkSeenOwnTerminalOnly ==
    [][/\ Len(requests') >= Len(requests)
       /\ \A r \in 1..Len(requests) :
            (requests[r].status = "PENDING" /\ requests'[r].status \in Terminal)
                => ~requests'[r].memberSeen
       /\ resp'.op = "markseen" =>
            /\ Len(requests') = Len(requests)
            /\ UnreadCountIn(requests', resp'.viewer) = 0
            /\ \A r \in 1..Len(requests) :
                 requests'[r] # requests[r] =>
                    /\ requests[r].userId = resp'.viewer
                    /\ requests[r].status \in Terminal
                    /\ ~requests[r].memberSeen
                    /\ requests'[r] = [requests[r] EXCEPT !.memberSeen = TRUE]]_vars

\* m1 has acknowledged a reviewed request of its own while the declined request
\* of the other member stays unacknowledged
C25_Witness ==
    /\ resp.op = "markseen" /\ resp.viewer = "m1" /\ sent.payload >= 1
    /\ \E r \in 1..Len(requests) :
         requests[r].userId = OtherMember /\ ~requests[r].memberSeen
    /\ \E r \in 1..Len(requests) :
         requests[r].userId = "m1" /\ requests[r].status \in Terminal /\ requests[r].memberSeen

\* C26: in a sweep of either kind every round takes exactly one of the selected
\* records off the work list, by writing it or by counting it as failed without
\* writing; the counters never lose a selected record; and the sweep ends only
\* when no selected record is left, with a normal answer.
C26_FailureDoesNotStopSweep ==
    /\ [](\A k \in 1..Len(sweeps) :
            (sweeps[k].kind \in ManualKinds /\ sweeps[k].read) =>
                sweeps[k].failed <= Cardinality(DOMAIN sweeps[k].seen \ sweeps[k].todo))
    /\ [][/\ \A k \in 1..Len(sweeps) :
               (Len(sweeps') = Len(sweeps) /\ sweeps[k].kind \in ManualKinds
                  /\ sweeps[k].read /\ sweeps'[k] # sweeps[k]) =>
                 \E b \in sweeps[k].todo :
                    /\ sweeps'[k].todo = sweeps[k].todo \ {b}
                    /\ \/ sweeps'[k].failed = sweeps[k].failed + 1 /\ meta' = meta
                       \/ sweeps'[k].failed = sweeps[k].failed /\ meta'[b].aiMetadata
          /\ \A k \in 1..Len(sweeps) :
               (sweeps[k].kind \in ManualKinds /\ sweeps' = RemoveAt(sweeps, k)) =>
                 /\ sweeps[k].read /\ sweeps[k].todo = {}
                 /\ resp'.op = sweeps[k].kind /\ resp'.status = 200]_vars

\* a sweep has counted a failed record and has written a selected record after it
C26_Witness ==
    \E k \in 1..Len(sweeps) :
        /\ sweeps[k].kind \in ManualKinds
        /\ sweeps[k].failed = 1 /\ sweeps[k].recovered /\ sweeps[k].todo = {}
        /\ \E b \in Rows : ~meta[b].aiMetadata
        /\ \E b \in Rows : meta[b].aiMetadata

\* C29: after the patch built from a row and a candidate has been applied, the
\* patch built from the updated row and the same candidate has no key, and the
\* second application returns the row unchanged.
C29_SecondPatchIsEmpty ==
    out.step = 2 => (out.keys = {} /\ out.row = out.before)

\* the first application filled fields of the row, among them a rating of 0, and
\* the second one has run
C29_Witness ==
    /\ out.step = 2
    /\ out.row # arg.existing
    /\ arg.existing.averageRating = NullNumber /\ out.row.averageRating = 0
    /\ out.row.genre = "new"

RECURSIVE IsSubsequence(_, _)
IsSubsequence(s, t) ==
    IF s = << >> THEN TRUE
    ELSE IF t = << >> THEN FALSE
    ELSE IF Head(s) = Head(t) THEN IsSubsequence(Tail(s), Tail(t))
    ELSE IsSubsequence(s, Tail(t))
KeyInWords(c) ==
    IF c.isbn # NullText THEN <<"isbn", c.isbn>>
    ELSE <<"text", [i \in DOMAIN c.title |-> Lower(c.title[i])],
                   [i \in DOMAIN c.author |-> Lower(c.author[i])]>>
DedupeDone == out.next = Len(arg) + 1
C31_DedupeKeepsFirstOfEachKey ==
    DedupeDone =>
        /\ IsSubsequence(out.output, arg)
        /\ \A i, j \in DOMAIN out.output :
              i # j => KeyInWords(out.output[i]) # KeyInWords(out.output[j])
        /\ \A i \in DOMAIN arg :
              \E k \in DOMAIN out.output :
                  /\ KeyInWords(out.output[k]) = KeyInWords(arg[i])
                  /\ \E f \in 1..i :
                        /\ out.output[k] = arg[f]
                        /\ \A e \in 1..(f - 1) : KeyInWords(arg[e]) # KeyInWords(arg[i])
C31_Witness ==
    /\ DedupeDone
    /\ Len(arg) = 4
    /\ arg[1].isbn # NullText /\ arg[2].isbn = arg[1].isbn
    /\ arg[3].isbn = NullText /\ arg[4].isbn = NullText
    /\ arg[3].title # arg[4].title /\ arg[3].author # arg[4].author
    /\ Len(out.output) = 2
    /\ out.output = <<arg[1], arg[3]>>

\* C33: for a book without ISBN whose author is not a placeholder, a candidate
\* whose normalized title and author both equal the book's scores strictly
\* higher than a candidate whose title only contains or is contained in the
\* book's and whose author does not match at all, whatever either could fill.
SameText(a, b) == normalize(Words(a)) = normalize(Words(b))
PartialText(a, b) ==
    /\ ~SameText(a, b)
    /\ normalize(Words(a)) # << >> /\ normalize(Words(b)) # << >>
    /\ \/ includes(normalize(Words(a)), normalize(Words(b)))
       \/ includes(normalize(Words(b)), normalize(Words(a)))
ExactMatch(local, c) == SameText(local.title, c.title) /\ SameText(local.author, c.author)
TitleOnlyMatch(local, c) ==
    /\ PartialText(local.title, c.title)
    /\ ~SameText(local.author, c.author) /\ ~PartialText(local.author, c.author)
C33_ExactBeatsPartialTitle ==
    (/\ out.done
     /\ arg.book.isbn = NullText
     /\ ~isUnknownAuthor(arg.book.author)
     /\ ExactMatch(arg.book, arg.first)
     /\ TitleOnlyMatch(arg.book, arg.second))
    => out.first > out.second
C33_Witness ==
    /\ out.done
    /\ arg.book.isbn = NullText
    /\ ~isUnknownAuthor(arg.book.author)
    /\ ExactMatch(arg.book, arg.first)
    /\ TitleOnlyMatch(arg.book, arg.second)
    /\ DOMAIN buildMetadataPatch(arg.book, arg.first) = {}
    /\ Cardinality(DOMAIN buildMetadataPatch(arg.book, arg.second)) = 7
    /\ out.first = 65 /\ out.second = 62

\* C32: findBestCandidateForBook tries at most three queries in the order
\* isbn:<isbn> (only for a row with an ISBN), "<title> <author>", "<title>";
\* it goes on to the next query only while the best score so far is below 25,
\* returns the best so far once that is at least 25, and after the last query
\* returns the best if it scores at least 18 and nothing otherwise; of
\* candidates with equal score the first encountered is the best.
RECURSIVE Flat(_, _)
Flat(listOfLists, n) == IF n = 0 THEN << >> ELSE Flat(listOfLists, n - 1) \o listOfLists[n]
ScoreOf(c) == candidateScore(arg, c)
IsFirstBest(c, cs) ==
    \E i \in DOMAIN cs :
        /\ cs[i] = c
        /\ \A j \in DOMAIN cs : ScoreOf(cs[j]) <= ScoreOf(c)
        /\ \A j \in 1..(i - 1) : ScoreOf(cs[j]) < ScoreOf(c)
ExpectedQueries ==
    IF arg.isbn \notin {NullText, ""}
    THEN << <<"isbn:", arg.isbn>>, <<arg.title, " ", arg.author>>, <<arg.title>> >>
    ELSE << <<arg.title, " ", arg.author>>, <<arg.title>> >>
C32_AttemptsAndThresholds ==
    LET all == Flat(out.seen, Len(out.seen))
        n == Len(out.queries)
    IN /\ n <= 3 /\ n <= Len(ExpectedQueries)
       /\ out.queries = SubSeq(ExpectedQueries, 1, n)
       /\ Len(out.seen) = n
       /\ \A k \in 1..(n - 1) : \A c \in Range(Flat(out.seen, k)) : ScoreOf(c) < 25
       /\ ~out.returned => n < Len(ExpectedQueries)
       /\ out.returned =>
            IF \E c \in Range(all) : ScoreOf(c) >= 25
            THEN IsFirstBest(out.result, all)
            ELSE /\ n = Len(ExpectedQueries)
                 /\ IF \E c \in Range(all) : ScoreOf(c) >= 18
                    THEN IsFirstBest(out.result, all)
                    ELSE out.result = NoCandidate
C32_Witness ==
    /\ out.returned
    /\ Len(out.queries) = 3
    /\ out.seen[1] = << >>
    /\ Len(out.seen[2]) = 1 /\ Len(out.seen[3]) = 1
    /\ ScoreOf(out.seen[2][1]) = 18 /\ ScoreOf(out.seen[3][1]) = 18
    /\ out.seen[2][1] # out.seen[3][1]
    /\ out.result = out.seen[2][1]

\* C34: for a borrower whose history is three Fantasy loans, an available
\* Fantasy candidate ranks above an available Romance candidate that has the
\* same author affinity, average rating and ratings count.
ThreeFantasyLoans ==
    Len(arg.history) = 3 /\ \A n \in 1..3 : arg.history[n].genre = "Fantasy"
Affinity(author) ==
    LET with == {n \in DOMAIN arg.history : arg.history[n].author = author}
    IN 5 * Cardinality(with)
Alike(a, b) ==
    /\ Affinity(a.author) = Affinity(b.author)
    /\ a.averageRating = b.averageRating
    /\ a.ratingsCount = b.ratingsCount
RankOf(id) ==
    IF \E k \in DOMAIN out.data : out.data[k].id = id
    THEN CHOOSE k \in DOMAIN out.data : out.data[k].id = id
    ELSE Len(arg.candidates) + 1
C34_FantasyAboveRomance ==
    (out.done /\ ThreeFantasyLoans) =>
        \A i, j \in DOMAIN arg.candidates :
            (/\ arg.candidates[i].genre = "Fantasy"
             /\ arg.candidates[j].genre = "Romance"
             /\ Alike(arg.candidates[i], arg.candidates[j]))
            => /\ RankOf(i) < RankOf(j)
               /\ \E k \in DOMAIN out.data : out.data[k].id = i
C34_Witness ==
    /\ out.done /\ ThreeFantasyLoans
    /\ arg.candidates[1].genre = "Romance"
    /\ arg.candidates[2].genre = "Fantasy"
    /\ arg.candidates[1].author # arg.candidates[2].author
    /\ Alike(arg.candidates[1], arg.candidates[2])
    /\ arg.limit = 2
    /\ out.data[1].id = 2 /\ out.data[2].id = 1
    /\ out.data[1].recommendationScore = out.data[2].recommendationScore + 1800

\* C35: no provider HTTP call is in flight, and none is made, while the
\* operation's store transaction or write is open.
C35_NoProviderCallWhileStoreOpen == out.tx => out.http = {}
\* C35, amended: an operation never waits for a provider call with its
\* transaction or write open. Checkout begins its transaction after the
\* estimate has settled, approval after the estimate has settled or the timer
\* has fired, a sweep and an import issue a write after the lookup is over. Only
\* the estimator that approval's timer has overtaken, whose result is ignored,
\* can have a call in flight while the transaction is open.
C35_NoWaitingOnProviderWhileStoreOpen ==
    out.tx =>
        /\ out.pc \in {"tx", "write"}
        /\ out.op = "checkout" => out.http = {} /\ out.estimator \in {"none", "settled"}
        /\ out.op = "approve" => out.estimator = "settled" \/ out.timedOut
        /\ out.op \in {"enrich-core", "enrich-library", "import"} =>
              out.http = {} /\ out.made = 0
        /\ out.http # {} => out.op = "approve" /\ out.timedOut
C35_Witness ==
    /\ out.tx
    /\ out.op = "approve" /\ out.timedOut
    /\ out.stmt = 3
    /\ out.http = {"openlibrary"}

\* C36: in onlyMissing mode the library sweep selects, oldest-updated first and
\* up to limit, every row that has a missing enrichable field (cover,
\* description, genre, year, ISBN, rating, ratings count) or whose author is a
\* recognized placeholder, "Unknown" and "N/A" among them.
Placeholder(author) == TrimLower(author) \in {"unknown author", "unknown", "n/a", "na", "-"}
Incomplete(row) ==
    \/ \E k \in {"coverUrl", "description", "genre", "isbn"} : row[k] = NullText
    \/ \E k \in {"publishedYear", "averageRating", "ratingsCount"} : row[k] = NullNumber
    \/ Placeholder(row.author)
IsOldestFirst(ids) ==
    \A k \in 1..(Len(ids) - 1) : arg.rows[ids[k]].updatedAt < arg.rows[ids[k + 1]].updatedAt
C36_SweepSelectsEveryIncompleteRow ==
    (out.done /\ arg.onlyMissing) =>
        LET due == {i \in DOMAIN arg.rows : Incomplete(arg.rows[i])} IN
        /\ Range(out.books) \subseteq due
        /\ IsOldestFirst(out.books)
        /\ Len(out.books) = Min(arg.limit, Cardinality(due))
        /\ \A i \in due \ Range(out.books) :
              \A k \in DOMAIN out.books :
                  arg.rows[out.books[k]].updatedAt < arg.rows[i].updatedAt

\* C37: a loan is checked in at most once: a checkin that succeeds returns a
\* loan that was active until then, so of concurrent checkins of one active
\* loan exactly one succeeds, and a returnedAt that is set never changes.
C37_CheckedInAtMostOnce ==
    [][/\ \A l \in 1..Len(loans) :
            loans[l].returnedAt # 0 => loans'[l].returnedAt = loans[l].returnedAt
       /\ (TxStep("checkin") /\ resp'.status = 200) =>
            \E l \in 1..Len(loans) :
                /\ loans[l].bookId = resp'.bookId
                /\ loans[l].returnedAt = 0 /\ loans'[l].returnedAt # 0]_vars

\* C38: a record that no PENDING request and no active Loan references is
\* AVAILABLE (available = true, requestPending = false); requestPending does
\* not stay true after its request is decided and the loan, if any, returned.
C38_UnreferencedMeansAvailable ==
    \A b \in Books :
        (PendingRequests(b) = {} /\ ActiveLoans(b) = {}) => book[b] = Available

\* C39: a successful listing response that carries catalog records carries only
\* records that match the filter of its own request, that come after its
\* cursor, and no more of them than its limit, also when the query failed and
\* the remembered payload is served.
ComesAfter(id, cursor) ==
    cursor = NoCursor \/
    \E k, n \in DOMAIN ListOrder(out.rows, DOMAIN out.rows) :
        /\ ListOrder(out.rows, DOMAIN out.rows)[k] = cursor
        /\ ListOrder(out.rows, DOMAIN out.rows)[n] = id
        /\ k < n
C39_ListingMatchesItsQuery ==
    out.sent.status = 200 =>
        /\ Len(out.sent.payload.data) <= out.sent.query.limit
        /\ \A k \in DOMAIN out.sent.payload.data :
              LET record == out.sent.payload.data[k] IN
              /\ out.sent.query.genre # NoFilter => Lower(record.genre) = out.sent.query.genre
              /\ ComesAfter(record.id, out.sent.query.cursor)

\* C40: the in-progress flag of the background sweep is released in the step in
\* which the sweep settles, resolved or rejected, and is held only while a
\* sweep is in flight; a sweep that was started settles, so the flag is released
\* at some time; and a listing answered from the store once the flag is released
\* and the cooldown has passed starts a new sweep.
C40_GuardReleasedWhenSweepSettles ==
    /\ [][/\ Cardinality(AutoSweeps') < Cardinality(AutoSweeps) =>
               ~autoCoreEnrichmentInProgress'
          /\ (/\ resp'.op = "list" /\ ~sent'.cached
              /\ ~autoCoreEnrichmentInProgress
              /\ clock - autoCoreEnrichmentLastRunAt >= AUTO_CORE_ENRICH_COOLDOWN_MS)
             => /\ autoCoreEnrichmentInProgress'
                /\ Cardinality(AutoSweeps') = Cardinality(AutoSweeps) + 1]_vars
    /\ [](autoCoreEnrichmentInProgress => AutoSweeps # {})
    /\ (autoCoreEnrichmentInProgress ~> ~autoCoreEnrichmentInProgress)
\* a sweep has settled, and after the cooldown a listing has started the next
C40_Witness ==
    /\ completedAt # Never
    /\ autoCoreEnrichmentInProgress
    /\ Cardinality(AutoSweeps) = 1
    /\ autoCoreEnrichmentLastRunAt >= completedAt
    /\ autoCoreEnrichmentLastRunAt >= StartTime + AUTO_CORE_ENRICH_COOLDOWN_MS
    /\ resp.op = "list"

====
